---- MODULE Spec2Model ----
(***************************************************************************)
(* A model of hsr-codegen (src/hsr-codegen/src/lib.rs): the reference      *)
(* resolver, the name validators, the path analyser, the type builder and  *)
(* the route-table builder.                                                *)
(*                                                                         *)
(* Strings are sequences of one-character strings, so that splitting,      *)
(* prefix tests, regular-expression matching and case conversion are       *)
(* computed character by character, as the code computes them.             *)
(* A Result<T> is a record [tag, val, err, arg]: tag is "Ok", "Err" or      *)
(* "Panic" (todo!(), unimplemented!(), a failed assert!).                   *)
(***************************************************************************)
EXTENDS Integers, Sequences, FiniteSets, TLC

VARIABLES
    pc,             \* position of the run: "start", then "done" (or a step name)
    schema_lookup,  \* components.schemas: sequence of <<key, ReferenceOr<Schema>>>
    refr,           \* the reference string handed to the resolver
    ref_name,       \* Result<TypeName> of extract_ref_name
    ref_result,     \* Result<(TypeName, SchemaData)> of validate_schema_ref
    path,           \* the path string handed to RoutePath::analyse
    route_path,     \* Result<RoutePath> of the analysis
    template,       \* the RoutePath rendered by build_template
    displayed,      \* the RoutePath rendered by Display
    reparsed,       \* Result<RoutePath> of analysing the rendered template
    input_schema,   \* the ReferenceOr<Schema> handed to build_type
    built_type,     \* Result<StructOrType> of build_type
    discarded,      \* Result<Type> of discard_struct on the built type
    response_lookup,\* components.responses
    input_response, \* the ReferenceOr<Response> handed to get_type_of_response
    resp_type,      \* Result<Option<Type>> of get_type_of_response
    idx,            \* gather_component_types: the table entry being processed
    todo,           \* the calls and checks still to run for that entry, next first
    calls,          \* the number of build_type calls made so far
    typs,           \* the TypeMap gathered so far
    gather_result,  \* Result<TypeMap> of gather_component_types
    paths,          \* api.paths: sequence of <<path, ReferenceOr<PathItem>>>
    route_result,   \* Result<Map<String, Vec<Route>>> of gather_routes
    tokens,         \* Result<TokenStream> of generate_rust_component_types
    raw,            \* the raw string handed to Ident::from_str
    parsed,         \* Result<Ident> of parsing the raw string
    parsed_again,   \* Result<Ident> of parsing the stored form again
    status_code,    \* the StatusCode handed to error_variant_from_status_code
    error_variant,  \* the TypeName it returns (or the panic of its unwrap)
    deref_lookup,   \* the table handed to dereference: sequence of <<key, ReferenceOr<T>>>
    deref_input,    \* the ReferenceOr<T> handed to dereference
    deref_cur,      \* the ReferenceOr<T> of the innermost call of dereference
    deref_depth,    \* the number of calls of dereference nested in the first
    deref_result,   \* Result<&T> of dereference
    option_input,   \* the Type handed to to_option
    option_result   \* the Type it returns

refVars == << refr, ref_name, ref_result >>

pathVars == << path, route_path, template, displayed, reparsed >>

typeVars == << input_schema, built_type, discarded, response_lookup, input_response, resp_type >>

gatherVars == << idx, todo, calls, typs, gather_result >>

routeVars == << paths, route_result >>

emitVars == << tokens >>

identVars == << raw, parsed, parsed_again >>

statusVars == << status_code, error_variant >>

derefVars == << deref_lookup, deref_input, deref_cur, deref_depth, deref_result >>

optionVars == << option_input, option_result >>

vars == << pc, schema_lookup, refVars, pathVars, typeVars, gatherVars, routeVars, emitVars, identVars, statusVars, derefVars, optionVars >>

\* the variables of the other components
notRef == << pathVars, typeVars, gatherVars, routeVars, emitVars, identVars, statusVars, derefVars, optionVars >>

notPath == << schema_lookup, refVars, typeVars, gatherVars, routeVars, emitVars, identVars, statusVars, derefVars, optionVars >>

notType == << refVars, pathVars, gatherVars, routeVars, emitVars, identVars, statusVars, derefVars, optionVars >>

notGather == << refVars, pathVars, typeVars, routeVars, emitVars, identVars, statusVars, derefVars, optionVars >>

notRoute == << schema_lookup, refVars, pathVars, typeVars, gatherVars, emitVars, identVars, statusVars, derefVars, optionVars >>

notEmit == << refVars, pathVars, typeVars, routeVars, identVars, statusVars, derefVars, optionVars >>

notIdent == << schema_lookup, refVars, pathVars, typeVars, gatherVars, routeVars, emitVars, statusVars, derefVars, optionVars >>

notStatus == << schema_lookup, refVars, pathVars, typeVars, gatherVars, routeVars, emitVars, identVars, derefVars, optionVars >>

notDeref == << schema_lookup, refVars, pathVars, typeVars, gatherVars, routeVars, emitVars, identVars, statusVars, optionVars >>

notOption == << schema_lookup, refVars, pathVars, typeVars, gatherVars, routeVars, emitVars, identVars, statusVars, derefVars >>

----------------------------------------------------------------------------
(* Results *)

None == <<>>

\* Option::Some
Some(x) == << x >>

\* the variables of a component that a run does not use
RefIdle == refr = None /\ ref_name = None /\ ref_result = None

PathIdle ==
    /\ path = None /\ route_path = None /\ template = None
    /\ displayed = None /\ reparsed = None

TypeIdle ==
    /\ input_schema = None /\ built_type = None /\ discarded = None
    /\ response_lookup = None /\ input_response = None /\ resp_type = None

GatherIdle ==
    /\ idx = 0 /\ todo = None /\ calls = 0 /\ typs = None /\ gather_result = None

RouteIdle == paths = None /\ route_result = None

EmitIdle == tokens = None

IdentIdle == raw = None /\ parsed = None /\ parsed_again = None

StatusIdle == status_code = None /\ error_variant = None

DerefIdle == deref_lookup = None /\ deref_input = None /\ deref_cur = None /\ deref_depth = 0 /\ deref_result = None

OptionIdle == option_input = None /\ option_result = None

NotRefIdle == PathIdle /\ TypeIdle /\ GatherIdle /\ RouteIdle /\ EmitIdle /\ IdentIdle /\ StatusIdle /\ DerefIdle /\ OptionIdle

NotPathIdle == RefIdle /\ TypeIdle /\ GatherIdle /\ RouteIdle /\ EmitIdle /\ IdentIdle /\ StatusIdle /\ DerefIdle /\ OptionIdle

NotTypeIdle == RefIdle /\ PathIdle /\ GatherIdle /\ RouteIdle /\ EmitIdle /\ IdentIdle /\ StatusIdle /\ DerefIdle /\ OptionIdle

NotGatherIdle == RefIdle /\ PathIdle /\ TypeIdle /\ RouteIdle /\ EmitIdle /\ IdentIdle /\ StatusIdle /\ DerefIdle /\ OptionIdle

NotRouteIdle == schema_lookup = None /\ RefIdle /\ PathIdle /\ TypeIdle /\ GatherIdle /\ EmitIdle /\ IdentIdle /\ StatusIdle /\ DerefIdle /\ OptionIdle

NotEmitIdle == RefIdle /\ PathIdle /\ TypeIdle /\ RouteIdle /\ IdentIdle /\ StatusIdle /\ DerefIdle /\ OptionIdle

NotIdentIdle == schema_lookup = None /\ RefIdle /\ PathIdle /\ TypeIdle /\ GatherIdle /\ RouteIdle /\ EmitIdle /\ StatusIdle /\ DerefIdle /\ OptionIdle

NotStatusIdle == schema_lookup = None /\ RefIdle /\ PathIdle /\ TypeIdle /\ GatherIdle /\ RouteIdle /\ EmitIdle /\ IdentIdle /\ DerefIdle /\ OptionIdle

NotDerefIdle == schema_lookup = None /\ RefIdle /\ PathIdle /\ TypeIdle /\ GatherIdle /\ RouteIdle /\ EmitIdle /\ IdentIdle /\ StatusIdle /\ OptionIdle

NotOptionIdle == schema_lookup = None /\ RefIdle /\ PathIdle /\ TypeIdle /\ GatherIdle /\ RouteIdle /\ EmitIdle /\ IdentIdle /\ StatusIdle /\ DerefIdle

Ok(v) == [tag |-> "Ok", val |-> v, err |-> "", arg |-> None]

Err(kind, a) == [tag |-> "Err", val |-> None, err |-> kind, arg |-> a]

Panic(msg) == [tag |-> "Panic", val |-> None, err |-> msg, arg |-> None]

IsOk(r) == r.tag = "Ok"

IsErr(r, kind) == r.tag = "Err" /\ r.err = kind

\* F applied to the value of v: v is evaluated once, as a `let` binding is
Bind(v, F(_)) == CHOOSE r \in { F(x) : x \in { v } } : TRUE

----------------------------------------------------------------------------
(* Characters *)

LowerSeq == << "a","b","c","d","e","f","g","h","i","j","k","l","m",
               "n","o","p","q","r","s","t","u","v","w","x","y","z" >>

UpperSeq == << "A","B","C","D","E","F","G","H","I","J","K","L","M",
               "N","O","P","Q","R","S","T","U","V","W","X","Y","Z" >>

DigitSeq == << "0","1","2","3","4","5","6","7","8","9" >>

Range(s) == { s[i] : i \in DOMAIN s }

is_lowercase(c) == c \in Range(LowerSeq)

is_uppercase(c) == c \in Range(UpperSeq)

IsDigit(c) == c \in Range(DigitSeq)

\* [[:alpha:]] of the regex crate: ASCII letters
IsAlpha(c) == is_lowercase(c) \/ is_uppercase(c)

IsAlphanumeric(c) == IsAlpha(c) \/ IsDigit(c)

IndexIn(s, c) == CHOOSE i \in DOMAIN s : s[i] = c

to_lowercase(c) == IF is_uppercase(c) THEN LowerSeq[IndexIn(UpperSeq, c)] ELSE c

to_uppercase(c) == IF is_lowercase(c) THEN UpperSeq[IndexIn(LowerSeq, c)] ELSE c

----------------------------------------------------------------------------
(* Strings *)

starts_with(s, p) == Len(s) >= Len(p) /\ SubSeq(s, 1, Len(p)) = p

\* str::split(sep): the pieces between separators, empty pieces included
\* the piece of s between two cuts
Piece(s, cuts, k) == SubSeq(s, cuts[k] + 1, cuts[k + 1] - 1)

\* the positions of sep in s, between the two ends of s
Cuts(s, sep) ==
    << 0 >> \o SelectSeq([i \in 1..Len(s) |-> i], LAMBDA i : s[i] = sep) \o << Len(s) + 1 >>

split(s, sep) == [k \in 1..(Len(Cuts(s, sep)) - 1) |-> Piece(s, Cuts(s, sep), k)]

RECURSIVE Concat(_)
Concat(ss) == IF ss = << >> THEN << >> ELSE Head(ss) \o Concat(Tail(ss))

RECURSIVE Join(_, _)
Join(ss, sep) ==
    IF ss = << >> THEN << >>
    ELSE IF Len(ss) = 1 THEN ss[1]
    ELSE ss[1] \o sep \o Join(Tail(ss), sep)

\* decimal rendering of a natural number
RECURSIVE Decimal(_)
Decimal(n) == IF n < 10 THEN << DigitSeq[n + 1] >>
              ELSE Decimal(n \div 10) \o << DigitSeq[(n % 10) + 1] >>

----------------------------------------------------------------------------
(* heck 0.3: CamelCase, MixedCase, SnakeCase (crate used by lib.rs:12) *)

WordChar(c) == IsAlphanumeric(c) \/ c = "_"

\* a sign that does not end a word when it stands between two letters
\* (apostrophe, full stop, colon) or between two digits (apostrophe, full
\* stop, comma, semicolon)
MidWord(s, i) ==
    /\ 1 < i /\ i < Len(s)
    /\ \/ s[i] \in { "'", ".", ":" } /\ IsAlpha(s[i - 1]) /\ IsAlpha(s[i + 1])
       \/ s[i] \in { "'", ".", ",", ";" } /\ IsDigit(s[i - 1]) /\ IsDigit(s[i + 1])

RECURSIVE Runs(_, _, _)
Runs(s, i, cur) ==
    LET flush == IF cur = << >> THEN << >> ELSE << cur >>
    IN  IF i > Len(s) THEN flush
        ELSE IF WordChar(s[i]) \/ MidWord(s, i) THEN Runs(s, i + 1, Append(cur, s[i]))
        ELSE flush \o Runs(s, i + 1, << >>)

\* str::unicode_words: the maximal runs of letters, digits and underscores
\* (and of the signs that stand inside a word) that hold at least one letter
\* or digit
unicode_words(s) ==
    SelectSeq(Runs(s, 1, << >>), LAMBDA w : \E i \in DOMAIN w : IsAlphanumeric(w[i]))

\* the scan of one unicode word by heck's transform: the pieces handed to
\* with_word, in order. mode is the WordMode, init the start of the piece.
RECURSIVE ScanWord(_, _, _, _)
ScanWord(word, i, init, mode) ==
    IF i > Len(word) THEN << >>
    ELSE LET c == word[i] IN
      IF c = "_"
      THEN ScanWord(word, i + 1, IF init = i THEN init + 1 ELSE init, mode)
      ELSE IF i < Len(word)
      THEN LET next == word[i + 1]
               next_mode == IF is_lowercase(c) THEN "Lowercase"
                            ELSE IF is_uppercase(c) THEN "Uppercase"
                            ELSE mode
           IN  IF next = "_" \/ (next_mode = "Lowercase" /\ is_uppercase(next))
               THEN << SubSeq(word, init, i) >> \o ScanWord(word, i + 1, i + 1, "Boundary")
               ELSE IF mode = "Uppercase" /\ is_uppercase(c) /\ is_lowercase(next)
               THEN << SubSeq(word, init, i - 1) >> \o ScanWord(word, i + 1, i, "Boundary")
               ELSE ScanWord(word, i + 1, init, next_mode)
      ELSE << SubSeq(word, init, Len(word)) >>

RECURSIVE ScanWords(_)
ScanWords(ws) ==
    IF ws = << >> THEN << >>
    ELSE ScanWord(Head(ws), 1, 1, "Boundary") \o ScanWords(Tail(ws))

\* the words heck's transform finds in s
transform(s) == Bind(unicode_words(s), ScanWords)

lowercase(w) == [i \in DOMAIN w |-> to_lowercase(w[i])]

capitalize(w) == [i \in DOMAIN w |-> IF i = 1 THEN to_uppercase(w[i]) ELSE to_lowercase(w[i])]

to_snake_case(s) ==
    Bind(transform(s), LAMBDA ws : Join([i \in DOMAIN ws |-> lowercase(ws[i])], << "_" >>))

to_camel_case(s) ==
    Bind(transform(s), LAMBDA ws : Concat([i \in DOMAIN ws |-> capitalize(ws[i])]))

to_mixed_case(s) ==
    Bind(transform(s), LAMBDA ws :
        Concat([i \in DOMAIN ws |-> IF i = 1 THEN lowercase(ws[i]) ELSE capitalize(ws[i])]))

----------------------------------------------------------------------------
(* Name validator *)

\* an Ident that keeps the string as it was given
Ident_from_str_verbatim(val) ==
    Bind(to_snake_case(val), LAMBDA snake :
        IF val = snake \/ val = to_mixed_case(val) THEN Ok(val) ELSE Err("BadIdentifier", val))

\* impl FromStr for Ident
Ident_from_str(val) ==
    Bind(to_snake_case(val), LAMBDA snake :
        IF val = snake \/ val = to_mixed_case(val) THEN Ok(snake) ELSE Err("BadIdentifier", val))

\* TypeName::new
TypeName_new(val) ==
    IF val = to_camel_case(val) THEN Ok(val) ELSE Err("BadTypeName", val)

----------------------------------------------------------------------------
(* Schema documents (openapiv3) *)

\* ReferenceOr<T>
Reference(r) == [kind |-> "Reference", reference |-> r]

Item(x) == [kind |-> "Item", item |-> x]

\* SchemaData: the metadata carried by a schema; the description is an
\* Option<String>
SchemaData(d) == [description |-> d]

Schema(data, kind) == [schema_data |-> data, schema_kind |-> kind]

\* IndexMap::get on a sequence of <<key, value>> pairs: Some(v) is <<v>>
Get(lookup, key) ==
    IF \E i \in DOMAIN lookup : lookup[i][1] = key
    THEN << lookup[CHOOSE i \in DOMAIN lookup : lookup[i][1] = key][2] >>
    ELSE None

StrComponents == << "c","o","m","p","o","n","e","n","t","s" >>

StrSchemas == << "s","c","h","e","m","a","s" >>

----------------------------------------------------------------------------
(* Reference resolver *)

\* extract_ref_name
extract_ref_name(r) ==
    IF ~ starts_with(r, << "#" >>) THEN Err("BadReference", r)
    ELSE Bind(split(r, "/"), LAMBDA parts :
        IF ~ (Len(parts) = 4 /\ parts[2] = StrComponents /\ parts[3] = StrSchemas)
        THEN Err("BadReference", r)
        ELSE TypeName_new(parts[4]))

\* the depth past which validate_schema_ref_depth gives up
MaxRefDepth == 20

\* validate_schema_ref_depth, lines 120-124: the name of the reference and
\* what the table holds under that name
named_entry(r, lookup) ==
    Bind(extract_ref_name(r), LAMBDA name :
        IF ~ IsOk(name) THEN name
        ELSE IF Get(lookup, name.val) = None THEN Err("BadReference", r)
        ELSE Ok([name |-> name.val, schema_or_ref |-> Get(lookup, name.val)[1]]))

\* validate_schema_ref_depth, lines 128-129: the (name, meta) of an Ok inner
\* result gets the outer name; an Err, whose val has no fields, is returned
\* as it is
with_name(name, inner) ==
    [inner EXCEPT !.val = [n \in DOMAIN @ |-> IF n = "name" THEN name ELSE @[n]]]

\* validate_schema_ref_depth. Every level of the recursion passes an Err up
\* as it is and puts its own name in the place of the name of an Ok, so the
\* result is that of the last call, under the name of the first.
validate_schema_ref_depth(r0, lookup, depth0) ==
    LET last_call[r \in Seq(STRING), depth \in Nat] ==
          IF depth > MaxRefDepth THEN Err("BadReference", r)
          ELSE LET found == named_entry(r, lookup) IN
            CASE ~ IsOk(found) -> found
              [] IsOk(found) /\ found.val.schema_or_ref.kind = "Reference" ->
                   last_call[found.val.schema_or_ref.reference, depth + 1]
              [] OTHER -> Ok([name |-> found.val.name,
                              meta |-> found.val.schema_or_ref.item.schema_data])
    IN  with_name(extract_ref_name(r0).val, last_call[r0, depth0])

\* a resolver whose depth counter starts one too high
validate_schema_ref_from_one(r, lookup) == validate_schema_ref_depth(r, lookup, 1)

\* validate_schema_ref
validate_schema_ref(r, lookup) == validate_schema_ref_depth(r, lookup, 0)

----------------------------------------------------------------------------
(* Reference resolution: inputs *)

\* the longest reference chain tried
MaxChain == 22

SchemaName(i) == << "N" >> \o Decimal(i)

\* the pointer '#/components/schemas/<name>'
Pointer(name) == << "#", "/" >> \o StrComponents \o << "/" >> \o StrSchemas \o << "/" >> \o name

StringSchema(d) == Schema(SchemaData(Some(d)), [k |-> "String"])

Decoy == << << "O", "t", "h", "e", "r" >>, Item(StringSchema(<< "o" >>)) >>

\* N1 -> N2 -> ... -> Nk are k reference entries; the last one points to
\* N(last). With last = k + 1 and terminal = TRUE the chain ends in a schema
\* N(k+1); with terminal = FALSE that target is missing; with last <= k the
\* chain runs into a cycle.
ChainLookup(k, last, terminal) ==
    [i \in 1..k |-> << SchemaName(i),
                       Reference(Pointer(SchemaName(IF i = k THEN last ELSE i + 1))) >>]
    \o (IF terminal THEN << << SchemaName(k + 1), Item(StringSchema(SchemaName(k + 1))) >> >>
        ELSE << >>)
    \o << Decoy >>

ChainCases ==
    { << ChainLookup(k, k + 1, TRUE), Pointer(SchemaName(1)) >> : k \in 0..MaxChain }
    \cup { << ChainLookup(k, k + 1, FALSE), Pointer(SchemaName(1)) >> : k \in 0..MaxChain }
    \cup { << ChainLookup(k, j, FALSE), Pointer(SchemaName(1)) >> :
             k \in 1..MaxChain, j \in 1..MaxChain }

\* reference strings of every shape: parts[0], parts[1], parts[2], a name, and
\* three to five segments
RefPrefixes == { << >>, << "#" >>, << "#", "x" >>, << "x" >> }

RefSections == { StrComponents, << "c","o","m","p","o","n","e","n","t" >>, << >> }

RefNamespaces == { StrSchemas, << "s","c","h","e","m","a" >>,
                   << "p","a","r","a","m","e","t","e","r","s" >>,
                   << "r","e","s","p","o","n","s","e","s" >> }

RefNames == { SchemaName(1), << "N", "o", "p", "e" >>, << "b", "a", "d", "_", "n" >>, << >> }

RefShapes ==
    { Join(<< p, c, n, name >>, << "/" >>) :
        p \in RefPrefixes, c \in RefSections, n \in RefNamespaces, name \in RefNames }
    \cup { Join(<< p, c, n >>, << "/" >>) : p \in RefPrefixes, c \in RefSections, n \in RefNamespaces }
    \cup { Join(<< p, c, n, name, name >>, << "/" >>) :
        p \in RefPrefixes, c \in { StrComponents }, n \in { StrSchemas }, name \in RefNames }

RefCases == ChainCases \cup { << ChainLookup(0, 1, TRUE), r >> : r \in RefShapes }

InitRef ==
    /\ pc = "ref_start"
    /\ \E c \in RefCases : schema_lookup = c[1] /\ refr = c[2]
    /\ ref_name = None /\ ref_result = None
    /\ NotRefIdle

\* resolve the reference against the schema table
Resolve ==
    /\ pc = "ref_start"
    /\ ref_name' = extract_ref_name(refr)
    /\ ref_result' = validate_schema_ref(refr, schema_lookup)
    /\ pc' = "ref_done"
    /\ UNCHANGED << schema_lookup, refr, notRef >>

NextRef == Resolve

SpecRef == InitRef /\ [][NextRef]_vars

----------------------------------------------------------------------------
(* Reference resolution: claims *)

FirstPointer == Pointer(SchemaName(1))

\* C1: resolving a chain of k reference entries whose targets all exist
\* succeeds for k <= 20 and returns the first pointer's name with the metadata
\* of the terminal schema; a chain of more than 20 reference entries, and a
\* chain that runs into a cycle, fail with BadReference.
C1_ChainResolution ==
    (pc = "ref_done" /\ refr = FirstPointer) =>
        /\ \A k \in 0..MaxChain :
             schema_lookup = ChainLookup(k, k + 1, TRUE) =>
                IF k <= 20
                THEN ref_result = Ok([name |-> SchemaName(1),
                                      meta |-> SchemaData(Some(SchemaName(k + 1)))])
                ELSE IsErr(ref_result, "BadReference")
        /\ \A k \in 1..MaxChain : \A j \in 1..k :
             schema_lookup = ChainLookup(k, j, FALSE) => IsErr(ref_result, "BadReference")

\* a chain of exactly 20 reference entries has been resolved
C1_Witness ==
    /\ pc = "ref_done" /\ refr = FirstPointer
    /\ schema_lookup = ChainLookup(20, 21, TRUE)
    /\ IsOk(ref_result)
    /\ ref_result.val.meta = SchemaData(Some(SchemaName(21)))

\* the pointer grammar '#/components/schemas/<Name>'
MatchesSchemaPointer(r) ==
    /\ starts_with(r, Pointer(<< >>))
    /\ \A i \in (Len(Pointer(<< >>)) + 1)..Len(r) : r[i] # "/"

\* C2: a reference string is accepted only if it matches
\* '#/components/schemas/<Name>' exactly, and a string of any other shape is
\* rejected with BadReference.
C2_ExactGrammar ==
    pc = "ref_done" =>
        /\ IsOk(ref_name) => MatchesSchemaPointer(refr)
        /\ ~ MatchesSchemaPointer(refr) => IsErr(ref_name, "BadReference")

----------------------------------------------------------------------------
(* Route paths *)

\* PathSegment
Literal(p) == [kind |-> "Literal", name |-> p]

Parameter(p) == [kind |-> "Parameter", name |-> p]

\* Regex "^[[:alpha:]]+$"
literal_re(seg) == Len(seg) >= 1 /\ \A i \in DOMAIN seg : IsAlpha(seg[i])

\* Regex "^\{([[:alpha:]]+)\}$"
param_re(seg) ==
    /\ Len(seg) >= 3
    /\ seg[1] = "{" /\ seg[Len(seg)] = "}"
    /\ \A i \in 2..(Len(seg) - 1) : IsAlpha(seg[i])

\* the loop of RoutePath::analyse over the split segments; an empty segment
\* is an error here
RECURSIVE analyse_segments_strict(_, _, _)
analyse_segments_strict(p, segs, segments) ==
    IF segs = << >> THEN Ok(segments)
    ELSE LET segment == Head(segs) IN
      IF literal_re(segment)
      THEN analyse_segments_strict(p, Tail(segs), Append(segments, Literal(segment)))
      ELSE IF param_re(segment)
      THEN analyse_segments_strict(p, Tail(segs),
               Append(segments, Parameter(SubSeq(segment, 2, Len(segment) - 1))))
      ELSE Err("MalformedPath", p)

\* the loop of RoutePath::analyse over the split segments
RECURSIVE analyse_segments(_, _, _)
analyse_segments(p, segs, segments) ==
    IF segs = << >> THEN Ok(segments)
    ELSE LET segment == Head(segs) IN
      IF segment = << >>
      THEN analyse_segments(p, Tail(segs), segments)
      ELSE IF literal_re(segment)
      THEN analyse_segments(p, Tail(segs), Append(segments, Literal(segment)))
      ELSE IF param_re(segment)
      THEN analyse_segments(p, Tail(segs),
               Append(segments, Parameter(SubSeq(segment, 2, Len(segment) - 1))))
      ELSE Err("MalformedPath", p)

\* an analysis that rejects empty segments
analyse_strict(p) ==
    IF p = << >> \/ ~ starts_with(p, << "/" >>) THEN Err("MalformedPath", p)
    ELSE analyse_segments_strict(p, Tail(split(p, "/")), << >>)

\* RoutePath::analyse
analyse(p) ==
    IF p = << >> \/ ~ starts_with(p, << "/" >>) THEN Err("MalformedPath", p)
    ELSE analyse_segments(p, Tail(split(p, "/")), << >>)

\* a rendering that keeps the parameter names
build_template_named(segments) ==
    Concat([i \in DOMAIN segments |->
              IF segments[i].kind = "Literal"
              THEN << "/" >> \o segments[i].name
              ELSE << "/", "{" >> \o segments[i].name \o << "}" >>])

\* RoutePath::build_template
build_template(segments) ==
    Concat([i \in DOMAIN segments |->
              IF segments[i].kind = "Literal"
              THEN << "/" >> \o segments[i].name
              ELSE << "/", "{", "}" >>])

\* impl fmt::Display for RoutePath
RoutePath_fmt(segments) ==
    Concat([i \in DOMAIN segments |->
              IF segments[i].kind = "Literal"
              THEN << "/" >> \o segments[i].name
              ELSE << "/", "{", "}" >>])

----------------------------------------------------------------------------
(* Route paths: inputs and steps *)

\* the longest path string enumerated in full
MaxPathLen == 4

PathAlphabet == { "/", "a", "B", "{", "}", "1", " " }

RECURSIVE StringsUpTo(_, _)
StringsUpTo(alphabet, n) ==
    IF n = 0 THEN { << >> }
    ELSE LET shorter == StringsUpTo(alphabet, n - 1)
         IN  shorter \cup { Append(s, c) : s \in { t \in shorter : Len(t) = n - 1 }, c \in alphabet }

\* the paths of the tests (lib.rs:1164-1200) and of the petstore example
SamplePaths ==
    { << "/","a","/","b","/","c","/" >>,
      << "/","a","/","b" >>,
      << "/","{","t","e","s","t","}" >>,
      << "/","{","a","}","/","{","b","}","/","a","/","b" >>,
      << "/","p","e","t","s" >>,
      << "/","p","e","t","s","/","{","p","e","t","I","d","}" >>,
      << "/","{","a","}","a" >>,
      << "/","{","a","1","}" >>,
      << "/","a","/","/","b" >> }

PathInputs == StringsUpTo(PathAlphabet, MaxPathLen) \cup SamplePaths

InitPath ==
    /\ pc = "path_start"
    /\ path \in PathInputs
    /\ route_path = None /\ template = None /\ displayed = None /\ reparsed = None
    /\ schema_lookup = None /\ NotPathIdle

\* RoutePath::analyse on the path
Analyse ==
    /\ pc = "path_start"
    /\ route_path' = analyse(path)
    /\ pc' = IF IsOk(analyse(path)) THEN "path_analysed" ELSE "path_rejected"
    /\ UNCHANGED << path, template, displayed, reparsed, notPath >>

\* render the RoutePath back to a template string
Render ==
    /\ pc = "path_analysed"
    /\ template' = build_template(route_path.val)
    /\ displayed' = RoutePath_fmt(route_path.val)
    /\ pc' = "path_rendered"
    /\ UNCHANGED << path, route_path, reparsed, notPath >>

\* RoutePath::analyse on the rendered template
Reparse ==
    /\ pc = "path_rendered"
    /\ reparsed' = analyse(template)
    /\ pc' = "path_done"
    /\ UNCHANGED << path, route_path, template, displayed, notPath >>

NextPath == Analyse \/ Render \/ Reparse

SpecPath == InitPath /\ [][NextPath]_vars

----------------------------------------------------------------------------
(* Route paths: claims *)

PathAnalysed == pc \in { "path_analysed", "path_rejected", "path_rendered", "path_done" }

\* the positions at which a non-empty '/'-delimited segment of p starts
SegmentStarts(p) == { i \in DOMAIN p : p[i] # "/" /\ (i = 1 \/ p[i - 1] = "/") }

\* the segment of p that starts at i: up to the next '/' or the end
SegmentAt(p, i) ==
    LET stop == IF \E j \in i..Len(p) : p[j] = "/"
                THEN (CHOOSE j \in i..Len(p) : p[j] = "/" /\ \A k \in i..(j - 1) : p[k] # "/") - 1
                ELSE Len(p)
    IN  SubSeq(p, i, stop)

IsLiteralSegment(seg) == seg # << >> /\ \A i \in DOMAIN seg : IsAlpha(seg[i])

IsParameterSegment(seg) ==
    /\ Len(seg) >= 3 /\ Head(seg) = "{" /\ seg[Len(seg)] = "}"
    /\ IsLiteralSegment(SubSeq(seg, 2, Len(seg) - 1))

WellFormedPath(p) ==
    /\ p # << >> /\ p[1] = "/"
    /\ \A i \in SegmentStarts(p) :
         IsLiteralSegment(SegmentAt(p, i)) \/ IsParameterSegment(SegmentAt(p, i))

\* the n-th smallest element of a set of numbers
NthOf(S, n) == CHOOSE x \in S : Cardinality({ y \in S : y < x }) = n - 1

\* the segments of a well-formed path, in the order in which they occur
SegmentsInOrder(p) ==
    [n \in 1..Cardinality(SegmentStarts(p)) |->
        LET seg == SegmentAt(p, NthOf(SegmentStarts(p), n))
        IN  IF IsLiteralSegment(seg) THEN Literal(seg)
            ELSE Parameter(SubSeq(seg, 2, Len(seg) - 1))]

\* C3: analyse accepts a path iff it starts with '/' and each non-empty
\* segment is an alphabetic literal or one {alphabetic} parameter; empty
\* segments are ignored; every other path fails with MalformedPath; the
\* segments of an accepted path come in the order of the path.
C3_AnalyseGrammar ==
    PathAnalysed =>
        /\ IsOk(route_path) <=> WellFormedPath(path)
        /\ ~ IsOk(route_path) => route_path = Err("MalformedPath", path)
        /\ IsOk(route_path) => route_path.val = SegmentsInOrder(path)

\* '/a/b/c/' has been accepted as [a, b, c]
C3_Witness ==
    /\ PathAnalysed
    /\ path = << "/","a","/","b","/","c","/" >>
    /\ route_path = Ok(<< Literal(<< "a" >>), Literal(<< "b" >>), Literal(<< "c" >>) >>)

RoundTrips == IsOk(reparsed) /\ reparsed.val = route_path.val

\* C4 as stated: the rendered template of every analysed RoutePath parses
\* again, to the same segments.
C4_RoundTripAlways == pc = "path_done" => RoundTrips

OnlyLiterals(segments) ==
    segments # << >> /\ \A i \in DOMAIN segments : segments[i].kind = "Literal"

\* C4 as amended: the rendered template parses again to the same segments
\* exactly when the RoutePath is not empty and holds Literal segments only;
\* the template of any other RoutePath is rejected with MalformedPath. Display
\* and build_template render the same string.
C4_RoundTripLiterals ==
    pc = "path_done" =>
        /\ displayed = template
        /\ RoundTrips <=> OnlyLiterals(route_path.val)
        /\ ~ OnlyLiterals(route_path.val) => reparsed = Err("MalformedPath", template)

\* a path of two literals has made the round trip
C4_Witness ==
    /\ pc = "path_done"
    /\ Len(route_path.val) = 2 /\ OnlyLiterals(route_path.val)
    /\ RoundTrips

----------------------------------------------------------------------------
(* Type IR *)

\* TypeWithMeta<T>
TypeWithMeta(meta, typ) == [meta |-> meta, typ |-> typ]

\* Either<Struct, TypeInner>
Left(strukt) == [either |-> "Left", v |-> strukt]

Right(inner) == [either |-> "Right", v |-> inner]

\* TypeInner
Primitive(t) == [t |-> t]

Array(inner) == [t |-> "Array", inner |-> inner]

Option(inner) == [t |-> "Option", inner |-> inner]

AnyType == [t |-> "Any"]

Named(name) == [t |-> "Named", name |-> name]

\* Field
Field(name, ty) == [name |-> name, ty |-> ty]

\* TypeInner::with_meta_either / Struct::with_meta_either
with_meta_either(typ, meta) == TypeWithMeta(meta, typ)

\* a discard_struct that lets a Struct through as an anonymous Any
discard_struct_anonymous(sot) ==
    Ok(TypeWithMeta(sot.meta, IF sot.typ.either = "Right" THEN sot.typ.v ELSE AnyType))

\* StructOrType::discard_struct
discard_struct(sot) ==
    IF sot.typ.either = "Right"
    THEN Ok(TypeWithMeta(sot.meta, sot.typ.v))
    ELSE Err("NotStructurallyTyped", None)

\* a to_option that keeps a type that is already Optional
to_option_collapsing(ty) ==
    IF ty.typ.t = "Option" THEN ty ELSE TypeWithMeta(ty.meta, Option(ty))

\* Type::to_option
to_option(ty) == TypeWithMeta(ty.meta, Option(ty))

\* Struct::new
Struct_new(fields) ==
    IF fields = << >> THEN Err("EmptyStruct", None) ELSE Ok([fields |-> fields])

\* a field that is made optional when it is required
field_type_inverted(ty, name, required_args) ==
    IF name \in required_args THEN to_option(ty) ELSE ty

\* Struct::from_objlike, lines 680-682: optional unless required
field_type(ty, name, required_args) ==
    IF name \notin required_args THEN to_option(ty) ELSE ty

----------------------------------------------------------------------------
(* Type graph builder *)

\* SchemaKind
StringKind == [k |-> "String"]

NumberKind == [k |-> "Number"]

IntegerKind == [k |-> "Integer"]

BooleanKind == [k |-> "Boolean"]

ArrayKind(items) == [k |-> "Array", items |-> items]

ObjectKind(properties, required) ==
    [k |-> "Object", properties |-> properties, required |-> required]

AnyKind(properties, required) ==
    [k |-> "Any", properties |-> properties, required |-> required]

AllOfKind(schemas) == [k |-> "AllOf", all_of |-> schemas]

OneOfKind == [k |-> "OneOf"]

RECURSIVE build_type(_, _)
RECURSIVE from_objlike_fields(_, _, _, _)
RECURSIVE build_all(_, _, _)

\* build_type(..).and_then(|s| s.discard_struct()), after build_type
and_then_discard_struct(b) ==
    Bind(b, LAMBDA s : IF IsOk(s) THEN discard_struct(s.val) ELSE s)

\* Struct::from_objlike, lines 683-687: the field is named and pushed
push_field(props, ty, id, required_args, lookup, fields) ==
    Bind(id, LAMBDA name :
        IF ~ IsOk(name) THEN name
        ELSE Bind(Append(fields, Field(name.val, field_type(ty, props[1][1], required_args))),
                  LAMBDA pushed :
                      from_objlike_fields(Tail(props), required_args, lookup, pushed)))

\* Struct::from_objlike, lines 679-684: the type of the property, then its name
next_field(props, ty, required_args, lookup, fields) ==
    Bind(ty, LAMBDA t :
        IF ~ IsOk(t) THEN t
        ELSE push_field(props, t.val, Ident_from_str(props[1][1]), required_args, lookup,
                        fields))

\* the loop of Struct::from_objlike over the properties
from_objlike_fields(props, required_args, lookup, fields) ==
    IF props = << >> THEN Struct_new(fields)
    ELSE next_field(props, and_then_discard_struct(build_type(props[1][2], lookup)),
                    required_args, lookup, fields)

\* Struct::from_objlike
from_objlike(obj, lookup) ==
    from_objlike_fields(obj.properties, Range(obj.required), lookup, << >>)

\* schemas.iter().map(build_type): one more constituent collected
collect_type(schemas, b, lookup, types) ==
    Bind(b, LAMBDA t :
        IF ~ IsOk(t) THEN t ELSE build_all(Tail(schemas), lookup, Append(types, t.val)))

\* schemas.iter().map(build_type).collect::<Result<Vec<_>>>(): stops at the
\* first constituent that fails
build_all(schemas, lookup, types) ==
    IF schemas = << >> THEN Ok(types)
    ELSE collect_type(schemas, build_type(Head(schemas), lookup), lookup, types)

\* build_type, lines 857-858: the Named leaf of a validated reference
named_type(validated) ==
    Bind(validated, LAMBDA v :
        IF ~ IsOk(v) THEN v ELSE Ok(with_meta_either(Right(Named(v.val.name)), v.val.meta)))

\* build_type, lines 869 and 896: .map(|s| s.with_meta_either(meta))
struct_type(strukt, meta) ==
    Bind(strukt, LAMBDA s : IF ~ IsOk(s) THEN s ELSE Ok(with_meta_either(Left(s.val), meta)))

\* build_type, lines 873-879: the constituents are built, then todo!()
allof_type(allof_types) ==
    Bind(allof_types, LAMBDA ts : IF ~ IsOk(ts) THEN ts ELSE Panic("not yet implemented"))

\* build_type, lines 892-893
array_type(inner, meta) ==
    Bind(inner, LAMBDA t :
        IF ~ IsOk(t) THEN t ELSE Ok(with_meta_either(Right(Array(t.val)), meta)))

\* build_type, lines 862-899: a schema that is not a reference
build_schema(meta, kind, lookup) ==
    CASE kind.k = "Any" ->
           IF kind.properties = << >>
           THEN Ok(with_meta_either(Right(AnyType), meta))
           ELSE struct_type(from_objlike(kind, lookup), meta)
      [] kind.k = "AllOf" -> allof_type(build_all(kind.all_of, lookup, << >>))
      [] kind.k = "String" -> Ok(with_meta_either(Right(Primitive("String")), meta))
      [] kind.k = "Number" -> Ok(with_meta_either(Right(Primitive("F64")), meta))
      [] kind.k = "Integer" -> Ok(with_meta_either(Right(Primitive("I64")), meta))
      [] kind.k = "Boolean" -> Ok(with_meta_either(Right(Primitive("Bool")), meta))
      [] kind.k = "Array" ->
           array_type(and_then_discard_struct(build_type(kind.items, lookup)), meta)
      [] kind.k = "Object" -> struct_type(from_objlike(kind, lookup), meta)
      [] OTHER -> Err("UnsupportedKind", None)

\* build_type
build_type(ref_or_schema, lookup) ==
    IF ref_or_schema.kind = "Reference"
    THEN named_type(validate_schema_ref(ref_or_schema.reference, lookup))
    ELSE build_schema(ref_or_schema.item.schema_data, ref_or_schema.item.schema_kind, lookup)

\* the loop of combine_types over the fields of one Struct: the fields seen
\* so far, or the first duplicate name
RECURSIVE combine_fields(_, _)
combine_fields(new, fields) ==
    IF new = << >> THEN Ok(fields)
    ELSE IF \E i \in DOMAIN fields : fields[i].name = Head(new).name
    THEN Err("DuplicateName", Head(new).name)
    ELSE combine_fields(Tail(new), Append(fields, Head(new)))

RECURSIVE combine_structs(_, _)

\* combine_types, lines 918-922: the fields of one more Struct
merge_struct(types, merged) ==
    Bind(merged, LAMBDA m : IF ~ IsOk(m) THEN m ELSE combine_structs(Tail(types), m.val))

\* the loop of combine_types over the types
combine_structs(types, fields) ==
    IF types = << >> THEN Struct_new(fields)
    ELSE IF Head(types).typ.either = "Right"
    THEN Err("Todo", None)
    ELSE merge_struct(types, combine_fields(Head(types).typ.v.fields, fields))

\* combine_types (never called: the call at lib.rs:878 is commented out)
combine_types(types) == combine_structs(types, << >>)

----------------------------------------------------------------------------
(* Responses *)

\* a call that never returns: unbounded recursion
Diverges == [tag |-> "Diverges", val |-> None, err |-> "", arg |-> None]

\* dereference, with the keys already visited: coming back to one of them
\* repeats the same calls for ever
RECURSIVE dereference_from(_, _, _)
dereference_from(r, lookup, seen) ==
    IF r.kind = "Item" THEN Ok(r.item)
    ELSE LET found == Get(lookup, r.reference) IN
      IF found = None THEN Err("BadReference", r.reference)
      ELSE IF r.reference \in seen THEN Diverges
      ELSE dereference_from(found[1], lookup, seen \cup { r.reference })

\* dereference
dereference(r, lookup) == dereference_from(r, lookup, { })

\* openapiv3::Response; content maps a media type to its (optional) schema
Response(headers, links, content) ==
    [headers |-> headers, links |-> links, content |-> content]

ApplicationJson == << "a","p","p","l","i","c","a","t","i","o","n","/","j","s","o","n" >>

TextPlain == << "t","e","x","t","/","p","l","a","i","n" >>

\* get_type_of_response, lines 271-273
some_type(ty) == IF ~ IsOk(ty) THEN ty ELSE Ok(<< ty.val >>)

\* get_type_of_response, lines 263-273: the schema of the one media type
body_type(ref_or_schema, lookup) ==
    IF ref_or_schema = None THEN Panic("Media type does not contain schema")
    ELSE some_type(and_then_discard_struct(build_type(ref_or_schema[1], lookup)))

\* get_type_of_response, lines 252-274: the dereferenced response
response_type(resp, lookup) ==
    IF resp.headers # << >> THEN Panic("response headers not supported")
    ELSE IF resp.links # << >> THEN Panic("response links not supported")
    ELSE IF resp.content = << >> THEN Ok(None)
    ELSE IF ~ (Len(resp.content) = 1 /\ Get(resp.content, ApplicationJson) # None)
    THEN Panic("content type must be 'application/json'")
    ELSE body_type(Get(resp.content, ApplicationJson)[1].schema, lookup)

\* get_type_of_response, line 251: dereference(..)?
dereferenced_type(deref, lookup) ==
    IF ~ IsOk(deref) THEN deref ELSE response_type(deref.val, lookup)

\* get_type_of_response
get_type_of_response(ref_or_resp, resp_lookup, lookup) ==
    dereferenced_type(dereference(ref_or_resp, resp_lookup), lookup)

----------------------------------------------------------------------------
(* Type builder: inputs *)

\* the most properties of an enumerated object schema
MaxProps == 2

\* the most constituents of an enumerated all-of schema
MaxAllOf == 2

NoMeta == SchemaData(None)

StrId == << "i", "d" >>

StrPetId == << "p", "e", "t", "I", "d" >>

StrBad == << "B", "a", "d" >>

StrName == << "n", "a", "m", "e" >>

StrTag == << "t", "a", "g" >>

StrPet == << "P", "e", "t" >>

StrAlias == << "A", "l", "i", "a", "s" >>

StrNode == << "N", "o", "d", "e" >>

StrNope == << "N", "o", "p", "e" >>

\* the object schema of the petstore example:
\* {id: integer (required), name: string (required), tag: string}
PetSchema ==
    Item(Schema(SchemaData(Some(<< "p" >>)),
         ObjectKind(<< << StrId, Item(Schema(NoMeta, IntegerKind)) >>,
                       << StrName, Item(Schema(NoMeta, StringKind)) >>,
                       << StrTag, Item(Schema(NoMeta, StringKind)) >> >>,
                    << StrId, StrName >>)))

\* an object that refers to itself through a property
NodeSchema ==
    Item(Schema(NoMeta,
         ObjectKind(<< << StrId, Item(Schema(NoMeta, IntegerKind)) >>,
                       << << "n","e","x","t" >>, Reference(Pointer(StrNode)) >> >>,
                    << StrId >>)))

\* the schema table of the type-builder runs
TypeLookup ==
    << << StrPet, PetSchema >>,
       << StrAlias, Reference(Pointer(StrPet)) >>,
       << StrNode, NodeSchema >> >>

InlineObject ==
    Item(Schema(SchemaData(Some(<< "o" >>)),
         ObjectKind(<< << StrId, Item(Schema(NoMeta, IntegerKind)) >> >>, << StrId >>)))

FieldSchemas ==
    { Item(Schema(NoMeta, StringKind)),
      Item(Schema(NoMeta, IntegerKind)),
      Item(Schema(SchemaData(Some(<< "d" >>)), NumberKind)),
      Item(Schema(NoMeta, BooleanKind)),
      Reference(Pointer(StrPet)),
      Reference(Pointer(StrAlias)),
      Reference(Pointer(StrNope)),
      Item(Schema(NoMeta, OneOfKind)),
      Item(Schema(NoMeta, AnyKind(<< >>, << >>))),
      InlineObject,
      Item(Schema(NoMeta, ArrayKind(Item(Schema(NoMeta, StringKind))))) }

\* the schemas of the properties of the object schemas
PropSchemas ==
    { Item(Schema(NoMeta, StringKind)),
      Item(Schema(NoMeta, IntegerKind)),
      Item(Schema(SchemaData(Some(<< "d" >>)), NumberKind)),
      Item(Schema(NoMeta, BooleanKind)),
      Reference(Pointer(StrPet)),
      Reference(Pointer(StrNope)),
      InlineObject }

PropNames == { StrId, StrPetId, StrBad }

RequiredLists == { << >>, << StrId >>, << StrId, StrPetId >> }

\* the property lists of n properties with distinct names
RECURSIVE PropSeqs(_)
PropSeqs(n) ==
    IF n = 0 THEN { << >> }
    ELSE UNION { { Append(ps, << nm, sc >>) :
                     nm \in PropNames \ { ps[i][1] : i \in DOMAIN ps }, sc \in PropSchemas } :
                 ps \in PropSeqs(n - 1) }

\* object schemas, declared ('type: object') and undeclared, with and
\* without properties
ObjectSchemas ==
    { Item(Schema(NoMeta, ObjectKind(ps, req))) :
        ps \in UNION { PropSeqs(n) : n \in 0..MaxProps }, req \in RequiredLists }
    \cup { Item(Schema(NoMeta, AnyKind(ps, req))) :
        ps \in UNION { PropSeqs(n) : n \in 0..MaxProps }, req \in RequiredLists }

ArraySchemas ==
    { Item(Schema(NoMeta, ArrayKind(items))) :
        items \in FieldSchemas
                  \cup { Item(Schema(NoMeta, ObjectKind(<< >>, << >>))),
                         Item(Schema(NoMeta, AnyKind(<< << StrId, InlineObject >> >>, << >>))),
                         Item(Schema(NoMeta, AnyKind(<< << StrPetId,
                                  Item(Schema(NoMeta, StringKind)) >> >>, << >>))) } }

ObjectWith(name, kind) ==
    Item(Schema(NoMeta, ObjectKind(<< << name, Item(Schema(NoMeta, kind)) >> >>, << name >>)))

Constituents ==
    { ObjectWith(StrId, IntegerKind), ObjectWith(StrId, StringKind),
      ObjectWith(StrPetId, StringKind),
      Item(Schema(NoMeta, StringKind)),
      Reference(Pointer(StrPet)), Reference(Pointer(StrNope)),
      Item(Schema(NoMeta, ObjectKind(<< >>, << >>))) }

RECURSIVE SeqsOfLen(_, _)
SeqsOfLen(S, n) ==
    IF n = 0 THEN { << >> }
    ELSE { Append(q, x) : q \in SeqsOfLen(S, n - 1), x \in S }

AllOfSchemas ==
    { Item(Schema(NoMeta, AllOfKind(cs))) :
        cs \in UNION { SeqsOfLen(Constituents, n) : n \in 1..MaxAllOf } }

StrPetSnake == << "p", "e", "t", "_", "i", "d" >>

\* objects with two properties whose names are spellings of one Identifier
TwinSchemas ==
    { Item(Schema(NoMeta, ObjectKind(<< << names[1], Item(Schema(NoMeta, IntegerKind)) >>,
                                        << names[2], Item(Schema(NoMeta, StringKind)) >> >>,
                                     req))) :
        names \in { << StrPetId, StrPetSnake >>, << StrPetSnake, StrPetId >> },
        req \in RequiredLists }

TypeInputs ==
    FieldSchemas \cup ObjectSchemas \cup ArraySchemas \cup AllOfSchemas
    \cup { PetSchema, NodeSchema } \cup TwinSchemas

\* the responses: every content shape around each body schema
ResponseBodies == FieldSchemas \cup { PetSchema }

MediaType(sc) == [schema |-> sc]

ResponseShapes ==
    { Response(<< >>, << >>, << >>),
      Response(<< StrId >>, << >>, << >>),
      Response(<< >>, << StrId >>, << >>),
      Response(<< >>, << >>, << << ApplicationJson, MediaType(None) >> >>) }
    \cup { Response(<< >>, << >>, << << ApplicationJson, MediaType(<< b >>) >> >>) :
             b \in ResponseBodies }
    \cup { Response(<< >>, << >>, << << TextPlain, MediaType(<< b >>) >> >>) :
             b \in ResponseBodies }
    \cup { Response(<< >>, << >>, << << ApplicationJson, MediaType(<< b >>) >>,
                                     << TextPlain, MediaType(<< b >>) >> >>) :
             b \in ResponseBodies }

StrOk == << "O", "k" >>

StrHop == << "H", "o", "p" >>

StrLoop == << "L", "o", "o", "p" >>

\* components.responses of the response runs
ResponseLookup ==
    << << StrOk, Item(Response(<< >>, << >>,
                      << << ApplicationJson, MediaType(<< InlineObject >>) >> >>)) >>,
       << StrHop, Reference(StrOk) >>,
       << StrLoop, Reference(StrLoop) >> >>

ResponseInputs ==
    { Item(r) : r \in ResponseShapes }
    \cup { Reference(k) : k \in { StrOk, StrHop, StrLoop, StrNope } }

InitType ==
    /\ \/ /\ pc = "type_start"
          /\ input_schema \in TypeInputs
          /\ input_response = None /\ response_lookup = None
       \/ /\ pc = "resp_start"
          /\ input_response \in ResponseInputs
          /\ response_lookup = ResponseLookup
          /\ input_schema = None
    /\ schema_lookup = TypeLookup
    /\ built_type = None /\ discarded = None /\ resp_type = None
    /\ NotTypeIdle

\* build_type on the schema
BuildType ==
    /\ pc = "type_start"
    /\ built_type' = build_type(input_schema, schema_lookup)
    /\ pc' = "type_built"
    /\ UNCHANGED << schema_lookup, notType, input_schema, discarded,
                    response_lookup, input_response, resp_type >>

\* discard_struct on the built type, as the callers of build_type apply it
\* (lib.rs:272, 679, 892)
DiscardStruct ==
    /\ pc = "type_built"
    /\ IsOk(built_type)
    /\ discarded' = discard_struct(built_type.val)
    /\ pc' = "type_discarded"
    /\ UNCHANGED << schema_lookup, notType, input_schema, built_type,
                    response_lookup, input_response, resp_type >>

\* get_type_of_response on the response
GetTypeOfResponse ==
    /\ pc = "resp_start"
    /\ resp_type' = get_type_of_response(input_response, response_lookup, schema_lookup)
    /\ pc' = "resp_done"
    /\ UNCHANGED << schema_lookup, notType, input_schema, built_type, discarded,
                    response_lookup, input_response >>

NextType == BuildType \/ DiscardStruct \/ GetTypeOfResponse

SpecType == InitType /\ [][NextType]_vars

----------------------------------------------------------------------------
(* Type builder: claims *)

TypeBuilt == pc \in { "type_built", "type_discarded" }

IsItemOf(sc, kinds) == sc.kind = "Item" /\ sc.item.schema_kind.k \in kinds

\* an object schema that is handed to Struct::from_objlike
IsStructSchema(sc) ==
    \/ IsItemOf(sc, { "Object" })
    \/ IsItemOf(sc, { "Any" }) /\ sc.item.schema_kind.properties # << >>

BuiltStruct == IsOk(built_type) /\ built_type.val.typ.either = "Left"

\* the type under the Optional wrapper, if there is one
BaseType(ty) == IF ty.typ.t = "Option" THEN ty.typ.inner ELSE ty

PrimitiveOf(k) ==
    CASE k = "String" -> Primitive("String")
      [] k = "Number" -> Primitive("F64")
      [] k = "Integer" -> Primitive("I64")
      [] k = "Boolean" -> Primitive("Bool")

\* the name a pointer ends in
PointerName(r) == LET parts == split(r, "/") IN parts[Len(parts)]

\* C5: the Struct of an object schema has one field per declared property,
\* in the declared order, named by the property's identifier, and the field's
\* type is Optional exactly when the property is not in the required list; a
\* primitive property gives the matching primitive and a $ref property the
\* Named type of its pointer.
C5_FieldPerProperty ==
    (TypeBuilt /\ IsStructSchema(input_schema) /\ IsOk(built_type)) =>
        LET props == input_schema.item.schema_kind.properties
            required == input_schema.item.schema_kind.required
        IN  /\ BuiltStruct
            /\ Len(built_type.val.typ.v.fields) = Len(props)
            /\ \A i \in DOMAIN props :
                 LET field == built_type.val.typ.v.fields[i] IN
                 /\ field.name = to_snake_case(props[i][1])
                 /\ (field.ty.typ.t = "Option") <=>
                        (\A j \in DOMAIN required : required[j] # props[i][1])
                 /\ field.ty.typ.t = "Option" => field.ty.meta = field.ty.typ.inner.meta
                 /\ IsItemOf(props[i][2], { "String", "Number", "Integer", "Boolean" }) =>
                        BaseType(field.ty) =
                            TypeWithMeta(props[i][2].item.schema_data,
                                         PrimitiveOf(props[i][2].item.schema_kind.k))
                 /\ props[i][2].kind = "Reference" =>
                        BaseType(field.ty).typ = Named(PointerName(props[i][2].reference))

\* the petstore object has been extracted as id, name, Optional tag
C5_Witness ==
    /\ TypeBuilt /\ input_schema = PetSchema
    /\ built_type =
         Ok(TypeWithMeta(SchemaData(Some(<< "p" >>)),
            Left([fields |-> <<
               Field(StrId, TypeWithMeta(NoMeta, Primitive("I64"))),
               Field(StrName, TypeWithMeta(NoMeta, Primitive("String"))),
               Field(StrTag, TypeWithMeta(NoMeta,
                     Option(TypeWithMeta(NoMeta, Primitive("String"))))) >>])))

\* C6: an object schema with a required list and no properties fails with
\* EmptyStruct and is never turned into Any, and no Struct has zero fields.
C6_EmptyObjectRejected ==
    TypeBuilt =>
        /\ ( /\ IsItemOf(input_schema, { "Object", "Any" })
             /\ input_schema.item.schema_kind.properties = << >>
             /\ input_schema.item.schema_kind.required # << >> )
           => IsErr(built_type, "EmptyStruct")
        /\ BuiltStruct => built_type.val.typ.v.fields # << >>

\* the fields of all the Structs, in order
RECURSIVE AllFields(_)
AllFields(types) ==
    IF types = << >> THEN << >> ELSE Head(types).typ.v.fields \o AllFields(Tail(types))

\* C7: build_type on an all-of schema whose constituents are built merges
\* their Structs into one Struct, returns the error DuplicateName when two
\* constituents declare the same field, and returns an error when a
\* constituent is not a Struct.
C7_AllOfMerges ==
    ( /\ TypeBuilt /\ IsItemOf(input_schema, { "AllOf" })
      /\ IsOk(build_all(input_schema.item.schema_kind.all_of, schema_lookup, << >>)) )
    => LET types == build_all(input_schema.item.schema_kind.all_of, schema_lookup, << >>).val
           structs == \A i \in DOMAIN types : types[i].typ.either = "Left"
           fields == AllFields(types)
           duplicate == \E i, j \in DOMAIN fields : i # j /\ fields[i].name = fields[j].name
       IN  /\ ~ structs => built_type.tag = "Err"
           /\ (structs /\ duplicate) => IsErr(built_type, "DuplicateName")
           /\ (structs /\ ~ duplicate) =>
                built_type = Ok(with_meta_either(Left([fields |-> fields]),
                                                 input_schema.item.schema_data))

\* an inline object schema that is itself built, to a Struct
BuildsStruct(sc) == IsStructSchema(sc) /\ IsOk(build_type(sc, schema_lookup))

\* the property builds to a type that is not a Struct, under a valid name
GoodProperty(prop) ==
    /\ IsOk(and_then_discard_struct(build_type(prop[2], schema_lookup)))
    /\ IsOk(Ident_from_str(prop[1]))

\* C8: discard_struct returns a non-struct with its metadata unchanged and
\* fails with NotStructurallyTyped on a Struct; so an inline object schema
\* (one that builds to a Struct) as the items of an array, as the type of a
\* struct field or as a response body makes build_type, from_objlike and
\* get_type_of_response fail with NotStructurallyTyped, and none of them
\* returns a type built from it.
C8_NoAnonymousStruct ==
    /\ pc = "type_discarded" =>
         IF built_type.val.typ.either = "Right"
         THEN discarded = Ok(TypeWithMeta(built_type.val.meta, built_type.val.typ.v))
         ELSE discarded = Err("NotStructurallyTyped", None)
    /\ (TypeBuilt /\ IsItemOf(input_schema, { "Array" })
          /\ BuildsStruct(input_schema.item.schema_kind.items))
         => built_type = Err("NotStructurallyTyped", None)
    /\ (TypeBuilt /\ IsStructSchema(input_schema)) =>
         LET props == input_schema.item.schema_kind.properties IN
         \A i \in DOMAIN props :
            BuildsStruct(props[i][2]) =>
               /\ ~ IsOk(built_type)
               /\ (\A j \in 1..(i - 1) : GoodProperty(props[j]))
                     => built_type = Err("NotStructurallyTyped", None)
    /\ (pc = "resp_done" /\ input_response.kind = "Item"
          /\ input_response.item.headers = << >> /\ input_response.item.links = << >>
          /\ Len(input_response.item.content) = 1
          /\ input_response.item.content[1][1] = ApplicationJson
          /\ input_response.item.content[1][2].schema # None
          /\ BuildsStruct(input_response.item.content[1][2].schema[1]))
         => resp_type = Err("NotStructurallyTyped", None)

\* an array of inline objects has been rejected
C8_Witness ==
    /\ TypeBuilt
    /\ input_schema = Item(Schema(NoMeta, ArrayKind(InlineObject)))
    /\ built_type = Err("NotStructurallyTyped", None)

----------------------------------------------------------------------------
(* gather_component_types *)

\* typs.insert(typename, typ), with the assert! that the key is new
insert_type(out, key, typ) ==
    IF Get(out, key) # None THEN Panic("assertion failed: typs.insert(typename, typ).is_none()")
    ELSE Ok(Append(out, << key, typ >>))

RECURSIVE gather_from(_, _, _)

\* gather_component_types, lines 159-160
gather_typ(lookup, i, typename, typ, out) ==
    Bind(typ, LAMBDA t :
        IF ~ IsOk(t) THEN t
        ELSE Bind(insert_type(out, typename, t.val), LAMBDA inserted_typ :
            IF ~ IsOk(inserted_typ) THEN inserted_typ
            ELSE gather_from(lookup, i + 1, inserted_typ.val)))

\* gather_component_types, lines 158-159
gather_entry(lookup, i, typename, out) ==
    Bind(typename, LAMBDA name :
        IF ~ IsOk(name) THEN name
        ELSE gather_typ(lookup, i, name.val, build_type(lookup[i][2], lookup), out))

\* the loop of gather_component_types, from entry i on
gather_from(lookup, i, out) ==
    IF i > Len(lookup) THEN Ok(out)
    ELSE gather_entry(lookup, i, TypeName_new(lookup[i][1]), out)

\* gather_component_types
gather_component_types(lookup) == gather_from(lookup, 1, << >>)

----------------------------------------------------------------------------
(* gather_component_types, one call at a time.  todo holds what the calls  *)
(* made so far have left to do for the entry, in the order of the code:    *)
(* build_type calls, and the checks that follow a call's return.           *)

BuildCall(node) == [op |-> "build", node |-> node]

DiscardCheck(node) == [op |-> "discard", node |-> node]

IdentCheck(name) == [op |-> "ident", name |-> name]

NewStruct(n) == [op |-> "new", n |-> n]

TodoMacro == [op |-> "todo"]

\* the call validate_schema_ref_depth(reference, lookup, depth) made for the
\* reference node
ValidateCall(reference, depth, node) ==
    [op |-> "validate", reference |-> reference, depth |-> depth, node |-> node]

\* a reference whose target is built in place
ref_work_inline(reference, lookup) ==
    IF IsOk(extract_ref_name(reference))
       /\ Get(lookup, extract_ref_name(reference).val) # None
    THEN << BuildCall(Get(lookup, extract_ref_name(reference).val)[1]) >>
    ELSE << >>

\* build_type, lines 856-859: a validated reference returns a Named leaf at
\* once; nothing of the target is built
ref_work(reference, lookup) == << >>

\* Struct::from_objlike, lines 677-688: per property the build_type call,
\* discard_struct, and the parse of the name
RECURSIVE props_work(_)
props_work(props) ==
    IF props = << >> THEN << >>
    ELSE << BuildCall(props[1][2]), DiscardCheck(props[1][2]), IdentCheck(props[1][1]) >>
         \o props_work(Tail(props))

\* Struct::from_objlike
objlike_work(obj) == props_work(obj.properties) \o << NewStruct(Len(obj.properties)) >>

\* build_type, lines 873-879
allof_work(schemas) == [i \in DOMAIN schemas |-> BuildCall(schemas[i])] \o << TodoMacro >>

\* the build of the node returned a Struct
ReturnsStruct(node) ==
    /\ node.kind = "Item"
    /\ \/ node.item.schema_kind.k = "Object"
       \/ node.item.schema_kind.k = "Any" /\ node.item.schema_kind.properties # << >>

\* the calls of one run are counted up to MaxCalls
MaxCalls == 16

TopIs(op) ==
    /\ pc = "building" /\ todo # << >> /\ Head(todo).op = op
    /\ op = "build" => calls < MaxCalls

TopBuilds(kinds) ==
    /\ TopIs("build") /\ Head(todo).node.kind = "Item"
    /\ Head(todo).node.item.schema_kind.k \in kinds

Fail(result) ==
    /\ pc' = "gather_failed"
    /\ gather_result' = result
    /\ UNCHANGED << idx, todo, typs >>

Continue(work) ==
    /\ todo' = work \o Tail(todo)
    /\ UNCHANGED << pc, idx, typs, gather_result >>

\* the loop of gather_component_types reaches the next entry: its name is
\* checked and build_type is called on its schema
StartEntry ==
    /\ pc = "gather" /\ idx < Len(schema_lookup)
    /\ \E typename \in { TypeName_new(schema_lookup[idx + 1][1]) } :
        IF IsOk(typename)
        THEN /\ idx' = idx + 1
             /\ todo' = << BuildCall(schema_lookup[idx + 1][2]) >>
             /\ pc' = "building"
             /\ UNCHANGED << typs, gather_result >>
        ELSE Fail(typename)
    /\ UNCHANGED << schema_lookup, calls, notGather >>

\* build_type on a reference: validate_schema_ref is called
BuildRef ==
    /\ TopIs("build") /\ Head(todo).node.kind = "Reference"
    /\ calls' = calls + 1
    /\ Continue(<< ValidateCall(Head(todo).node.reference, 0, Head(todo).node) >>)
    /\ UNCHANGED << schema_lookup, notGather >>

\* validate_schema_ref_depth, one call: it fails, calls itself on the
\* reference found, or returns and build_type returns the Named leaf
ValidateRef ==
    /\ TopIs("validate")
    /\ IF Head(todo).depth > MaxRefDepth
       THEN Fail(Err("BadReference", Head(todo).reference))
       ELSE \E found \in { named_entry(Head(todo).reference, schema_lookup) } :
            IF ~ IsOk(found) THEN Fail(found)
            ELSE IF found.val.schema_or_ref.kind = "Reference"
            THEN Continue(<< ValidateCall(found.val.schema_or_ref.reference,
                                          Head(todo).depth + 1, Head(todo).node) >>)
            ELSE Continue(ref_work(Head(todo).node.reference, schema_lookup))
    /\ UNCHANGED << schema_lookup, calls, notGather >>

\* build_type on a primitive
BuildPrimitive ==
    /\ TopBuilds({ "String", "Number", "Integer", "Boolean" })
    /\ calls' = calls + 1
    /\ Continue(<< >>)
    /\ UNCHANGED << schema_lookup, notGather >>

\* build_type on a schema of a kind that is not supported
BuildUnsupported ==
    /\ TopBuilds({ "OneOf" })
    /\ calls' = calls + 1
    /\ Fail(Err("UnsupportedKind", None))
    /\ UNCHANGED << schema_lookup, notGather >>

\* build_type on an array: its items are built, then discard_struct
BuildArray ==
    /\ TopBuilds({ "Array" })
    /\ calls' = calls + 1
    /\ Continue(<< BuildCall(Head(todo).node.item.schema_kind.items),
                   DiscardCheck(Head(todo).node.item.schema_kind.items) >>)
    /\ UNCHANGED << schema_lookup, notGather >>

\* build_type on an object, declared or not
BuildObject ==
    /\ TopBuilds({ "Object", "Any" })
    /\ calls' = calls + 1
    /\ IF ReturnsStruct(Head(todo).node)
       THEN Continue(objlike_work(Head(todo).node.item.schema_kind))
       ELSE Continue(<< >>)
    /\ UNCHANGED << schema_lookup, notGather >>

\* build_type on an all-of schema
BuildAllOf ==
    /\ TopBuilds({ "AllOf" })
    /\ calls' = calls + 1
    /\ Continue(allof_work(Head(todo).node.item.schema_kind.all_of))
    /\ UNCHANGED << schema_lookup, notGather >>

\* discard_struct on the type a call returned
CheckDiscard ==
    /\ TopIs("discard")
    /\ IF ReturnsStruct(Head(todo).node)
       THEN Fail(Err("NotStructurallyTyped", None))
       ELSE Continue(<< >>)
    /\ UNCHANGED << schema_lookup, calls, notGather >>

\* name.parse()? of a property
CheckIdent ==
    /\ TopIs("ident")
    /\ \E name \in { Ident_from_str(Head(todo).name) } :
        IF IsOk(name) THEN Continue(<< >>) ELSE Fail(name)
    /\ UNCHANGED << schema_lookup, calls, notGather >>

\* Struct::new on the fields gathered
CheckNewStruct ==
    /\ TopIs("new")
    /\ IF Head(todo).n = 0 THEN Fail(Err("EmptyStruct", None)) ELSE Continue(<< >>)
    /\ UNCHANGED << schema_lookup, calls, notGather >>

\* todo!() after the constituents of an all-of schema
HitTodo ==
    /\ TopIs("todo")
    /\ Fail(Panic("not yet implemented"))
    /\ UNCHANGED << schema_lookup, calls, notGather >>

\* gather_component_types, line 160, for the entry whose build has returned
inserted(out, entry, lookup) ==
    insert_type(out, TypeName_new(entry[1]).val, build_type(entry[2], lookup).val)

\* build_type has returned for the entry: the type is inserted
FinishEntry ==
    /\ pc = "building" /\ todo = << >>
    /\ \E out \in { inserted(typs, schema_lookup[idx], schema_lookup) } :
        IF IsOk(out)
        THEN /\ typs' = out.val
             /\ pc' = "gather"
             /\ UNCHANGED << idx, todo, gather_result >>
        ELSE Fail(out)
    /\ UNCHANGED << schema_lookup, calls, notGather >>

\* the loop is over: Ok(typs)
FinishGather ==
    /\ pc = "gather" /\ idx = Len(schema_lookup)
    /\ gather_result' = Ok(typs)
    /\ pc' = "gather_done"
    /\ UNCHANGED << schema_lookup, idx, todo, calls, typs, notGather >>

NextGather ==
    \/ StartEntry \/ BuildRef \/ ValidateRef \/ BuildPrimitive \/ BuildUnsupported \/ BuildArray
    \/ BuildObject \/ BuildAllOf \/ CheckDiscard \/ CheckIdent \/ CheckNewStruct
    \/ HitTodo \/ FinishEntry \/ FinishGather

----------------------------------------------------------------------------
(* Schema tables of the gather runs *)

MaxSchemas == 2

StrA == << "A" >>

StrB == << "B" >>

StrLower == << "l", "o", "w" >>

StrNext == << "n", "e", "x", "t" >>

GatherKeys == { StrA, StrB, StrLower }

ObjectOf(name, node) == Item(Schema(NoMeta, ObjectKind(<< << name, node >> >>, << name >>)))

ArrayOf(node) == Item(Schema(NoMeta, ArrayKind(node)))

GatherSchemas ==
    { Reference(Pointer(StrA)),
      Reference(Pointer(StrB)),
      ObjectOf(StrNext, Reference(Pointer(StrA))),
      ObjectOf(StrBad, Item(Schema(NoMeta, StringKind))),
      ArrayOf(Reference(Pointer(StrB))),
      ArrayOf(InlineObject),
      Item(Schema(NoMeta, ObjectKind(<< >>, << >>))),
      Item(Schema(NoMeta, AllOfKind(<< Reference(Pointer(StrA)),
                                       Item(Schema(NoMeta, StringKind)) >>))),
      Item(Schema(NoMeta, OneOfKind)) }

\* an IndexMap holds a key once
DistinctKeys(table) ==
    \A i \in DOMAIN table : \A j \in DOMAIN table : i # j => table[i][1] # table[j][1]

GatherTables ==
    { table \in UNION { [1..n -> GatherKeys \X GatherSchemas] : n \in 1..MaxSchemas } :
        DistinctKeys(table) }

InitGather ==
    /\ pc = "gather"
    /\ schema_lookup \in GatherTables
    /\ idx = 0 /\ todo = << >> /\ calls = 0 /\ typs = << >> /\ gather_result = None
    /\ NotGatherIdle

SpecGather == InitGather /\ [][NextGather]_vars

\* a call that has been made returns, and the loop goes on
SpecGatherFair == SpecGather /\ WF_vars(NextGather)

----------------------------------------------------------------------------
(* Claim about gather_component_types *)

RECURSIVE NodeCount(_)
RECURSIVE NodeCountAll(_)

\* the schema nodes of a document, a reference counting as one node
NodeCount(node) ==
    IF node.kind = "Reference" THEN 1
    ELSE CASE node.item.schema_kind.k = "Array" -> 1 + NodeCount(node.item.schema_kind.items)
           [] node.item.schema_kind.k \in { "Object", "Any" } ->
                1 + NodeCountAll([i \in DOMAIN node.item.schema_kind.properties |->
                                     node.item.schema_kind.properties[i][2]])
           [] node.item.schema_kind.k = "AllOf" -> 1 + NodeCountAll(node.item.schema_kind.all_of)
           [] OTHER -> 1

NodeCountAll(nodes) ==
    IF nodes = << >> THEN 0 ELSE NodeCount(nodes[1]) + NodeCountAll(Tail(nodes))

\* the nodes written in the first n entries of the table
NodesUpTo(n) == NodeCountAll([i \in 1..n |-> schema_lookup[i][2]])

GatherRuns == pc \in { "gather", "building", "gather_done", "gather_failed" }

GatherEnded == pc \in { "gather_done", "gather_failed" }

\* build_type is called at most once per node written in the entries reached
CallsWithinDocument == calls <= NodesUpTo(idx) /\ calls < MaxCalls

\* an entry that is a bare $ref is gathered as the Named leaf of its pointer
BareRefsAreNamed ==
    \A i \in DOMAIN typs :
        schema_lookup[i][2].kind = "Reference" =>
            typs[i][2].typ = Right(Named(PointerName(schema_lookup[i][2].reference)))

\* a run that succeeds ends with the result of gather_component_types
EndsWithResult ==
    pc = "gather_done" => gather_result = gather_component_types(schema_lookup)

\* a run fails when gather_component_types does
FailsWithResult ==
    pc = "gather_failed" => gather_result = gather_component_types(schema_lookup)

GatherSafe ==
    GatherRuns =>
        CallsWithinDocument /\ BareRefsAreNamed /\ EndsWithResult /\ FailsWithResult

\* C9: gather_component_types terminates on every finite schema table, also
\* when schemas refer to themselves or to each other through $ref in
\* properties or array items: a bare $ref becomes the Named leaf of its pointer
\* and the referenced schema is not built there, so build_type is called at
\* most once per node written in the table.
C9_GatherTerminates == [] GatherSafe /\ (GatherRuns ~> GatherEnded)

RefersTo(node, key) == node = Reference(Pointer(key))

\* the entry refers to itself through a property or through array items
SelfReferring(entry) ==
    /\ entry[2].kind = "Item"
    /\ \/ /\ entry[2].item.schema_kind.k = "Object"
          /\ \E i \in DOMAIN entry[2].item.schema_kind.properties :
                RefersTo(entry[2].item.schema_kind.properties[i][2], entry[1])
       \/ /\ entry[2].item.schema_kind.k = "Array"
          /\ RefersTo(entry[2].item.schema_kind.items, entry[1])

\* a table with a self-referring object and a bare $ref to it was gathered
C9_Witness ==
    /\ pc = "gather_done" /\ IsOk(gather_result) /\ Len(schema_lookup) = 2
    /\ SelfReferring(schema_lookup[1])
    /\ schema_lookup[1][2].item.schema_kind.k = "Object"
    /\ RefersTo(schema_lookup[2][2], schema_lookup[1][1])
    /\ typs[2][2].typ = Right(Named(schema_lookup[1][1]))
    /\ calls = 3

(***************************************************************************)
(* The route table: gather_routes                                          *)
(***************************************************************************)

\* unwrap_ref: the item of a ReferenceOr, a reference is an error
unwrap_ref(item) ==
    IF item.kind = "Item" THEN Ok(item.item)
    ELSE Err("UnexpectedReference", item.reference)

\* the operations of a PathItem in the order gather_routes visits them
Methods == << "get", "options", "head", "trace", "post", "put", "patch", "delete" >>

WithoutBody(verb) == [kind |-> "WithoutBody", verb |-> verb]

WithBody(verb) == [kind |-> "WithBody", verb |-> verb]

\* the Route of one operation: the operation id is required and must be an
\* Identifier, the path must analyse. It is given the path, the verb, the
\* operation and the lookup tables, and nothing of the routes built before.
Route_new(p, method, op) ==
    IF op.operation_id = None THEN Err("NoOperationId", p)
    ELSE Bind(Ident_from_str(op.operation_id[1]), LAMBDA id :
        IF ~ IsOk(id) THEN id
        ELSE Bind(analyse(p), LAMBDA rp :
            IF ~ IsOk(rp) THEN rp
            ELSE Ok([operation_id |-> id.val, method |-> method, path |-> rp.val])))

\* Route::without_body
Route_without_body(p, verb, op) == Route_new(p, WithoutBody(verb), op)

\* Route::with_body
Route_with_body(p, verb, op) == Route_new(p, WithBody(verb), op)

\* the Route of the k-th method: the first four carry no body
method_route(p, k, op) ==
    IF k <= 4 THEN Route_without_body(p, Methods[k], op)
    ELSE Route_with_body(p, Methods[k], op)

RECURSIVE push_routes(_, _, _, _)
\* the `if let Some(ref op) = pathitem.<method>` blocks from the k-th on
push_routes(p, pathitem, k, pathroutes) ==
    IF k > Len(Methods) THEN Ok(pathroutes)
    ELSE IF pathitem[Methods[k]] = None THEN push_routes(p, pathitem, k + 1, pathroutes)
    ELSE Bind(method_route(p, k, pathitem[Methods[k]][1]), LAMBDA route :
        IF ~ IsOk(route) THEN route
        ELSE push_routes(p, pathitem, k + 1, Append(pathroutes, route.val)))

\* routes.insert(path, pathroutes) and the assertion on a duplicate key
insert_routes(routes, p, pathroutes) ==
    IF Get(routes, p) # None THEN Panic("assertion failed: !is_duped_key")
    ELSE Ok(Append(routes, << p, pathroutes >>))

\* the routes of one path
path_routes(p, item) ==
    Bind(unwrap_ref(item), LAMBDA pathitem :
        IF ~ IsOk(pathitem) THEN pathitem
        ELSE push_routes(p, pathitem.val, 1, << >>))

RECURSIVE routes_from(_, _, _)
\* the loop of gather_routes from the i-th path on
routes_from(ps, i, routes) ==
    IF i > Len(ps) THEN Ok(routes)
    ELSE Bind(path_routes(ps[i][1], ps[i][2]), LAMBDA pathroutes :
        IF ~ IsOk(pathroutes) THEN pathroutes
        ELSE Bind(insert_routes(routes, ps[i][1], pathroutes.val), LAMBDA next :
            IF ~ IsOk(next) THEN next ELSE routes_from(ps, i + 1, next.val)))

gather_routes(ps) == routes_from(ps, 1, << >>)

(***************************************************************************)
(* Descriptions: at most MaxPaths paths                                    *)
(***************************************************************************)

MaxPaths == 2

NoOperations == [m \in { Methods[k] : k \in DOMAIN Methods } |-> None]

Operation(id) == [operation_id |-> id]

\* a PathItem with the given operations: a sequence of <<method, operation id>>
PathItemOf(ops) ==
    [m \in DOMAIN NoOperations |->
        IF \E i \in DOMAIN ops : ops[i][1] = m
        THEN Some(Operation(ops[CHOOSE i \in DOMAIN ops : ops[i][1] = m][2]))
        ELSE None]

\* one operation id per method
MethodIds ==
    << << "g" >>, << "o" >>, << "h" >>, << "t" >>,
       << "p", "o" >>, << "p", "u" >>, << "p", "a" >>, << "d" >> >>

EveryMethod == PathItemOf([k \in DOMAIN Methods |-> << Methods[k], Some(MethodIds[k]) >>])

PathItems ==
    { Item(PathItemOf(<< << "get", Some(StrId) >> >>)),
      Item(PathItemOf(<< << "get", Some(StrId) >>, << "post", Some(StrName) >> >>)),
      Item(PathItemOf(<< << "post", Some(StrId) >> >>)),
      Item(PathItemOf(<< << "get", Some(StrName) >>, << "delete", Some(StrName) >> >>)),
      Item(EveryMethod),
      Item(PathItemOf(<< << "get", None >> >>)),
      Item(PathItemOf(<< << "put", Some(StrBad) >> >>)),
      Item(NoOperations),
      Reference(Pointer(StrPet)) }

PathKeys == { << "/", "a" >>, << "/", "b" >>, << "/", "c", "/", "{", "i", "d", "}" >> }

\* the keys of a map are distinct
DistinctPaths(ps) == \A i, j \in DOMAIN ps : i # j => ps[i][1] # ps[j][1]

PathTables ==
    { ps \in UNION { [1..n -> PathKeys \X PathItems] : n \in 1..MaxPaths } :
        DistinctPaths(ps) }

InitRoutes ==
    /\ pc = "routes"
    /\ paths \in PathTables
    /\ route_result = None
    /\ NotRouteIdle

\* gather_routes on the paths of the description
GatherRoutes ==
    /\ pc = "routes"
    /\ \E result \in { gather_routes(paths) } :
        /\ route_result' = result
        /\ pc' = IF IsOk(result) THEN "routes_done" ELSE "routes_failed"
    /\ UNCHANGED << paths, notRoute >>

NextRoutes == GatherRoutes

SpecRoutes == InitRoutes /\ [][NextRoutes]_vars

RECURSIVE AllRoutes(_, _)
\* all the Routes of a route table, from the i-th path on
AllRoutes(routes, i) ==
    IF i > Len(routes) THEN << >> ELSE routes[i][2] \o AllRoutes(routes, i + 1)

UniqueOperationIds(all) ==
    \A i, j \in DOMAIN all : i # j => all[i].operation_id # all[j].operation_id

\* C10: whenever gather_routes succeeds, no two Routes of the route table,
\* across all paths and all methods, have the same operation Identifier.
C10_UniqueOperationIds ==
    (pc = "routes_done" /\ IsOk(route_result)) =>
        UniqueOperationIds(AllRoutes(route_result.val, 1))

----------------------------------------------------------------------------
(* Responses: claims *)

\* a response given inline, without headers and links
PlainResponse ==
    /\ pc = "resp_done" /\ input_response.kind = "Item"
    /\ input_response.item.headers = << >> /\ input_response.item.links = << >>

\* the content is exactly one application/json media type
OnlyJson(content) == Len(content) = 1 /\ content[1][1] = ApplicationJson

\* C11: get_type_of_response returns no body type when the response has no
\* content, the built body Type when the content is exactly one
\* application/json media type, and in every other case (several media
\* types, a media type that is not JSON) returns an error value.
C11_ResponsePolicy ==
    PlainResponse =>
        LET content == input_response.item.content IN
        /\ content = << >> => resp_type = Ok(None)
        /\ (OnlyJson(content) /\ content[1][2].schema # None) =>
              LET built == build_type(content[1][2].schema[1], schema_lookup) IN
              (IsOk(built) /\ built.val.typ.either = "Right") =>
                  resp_type = Ok(Some(TypeWithMeta(built.val.meta, built.val.typ.v)))
        /\ (content # << >> /\ ~ OnlyJson(content)) => resp_type.tag = "Err"

(***************************************************************************)
(* The type-definition emitter: generate_rust_component_types              *)
(* A TokenStream is a sequence of tokens: Tok of a fixed word or sign,     *)
(* IdentTok of an identifier, LitTok of a string literal.                  *)
(***************************************************************************)

Tok(word) == [tok |-> word]

IdentTok(name) == [ident |-> name]

LitTok(text) == [lit |-> text]

\* proc_macro2::Ident::new: the string must be an identifier
ident(name) ==
    IF name = << >> THEN Panic("Ident is not allowed to be empty; use Option<Ident>")
    ELSE IF \A i \in DOMAIN name : IsDigit(name[i])
    THEN Panic("Ident cannot be a number; use Literal instead")
    ELSE IF ~ ( /\ IsAlpha(name[1]) \/ name[1] = "_"
                /\ \A i \in DOMAIN name : IsAlphanumeric(name[i]) \/ name[i] = "_" )
    THEN Panic("not a valid Ident")
    ELSE Ok(<< IdentTok(name) >>)

\* a < b > around the tokens of the inner type
generic(word, inner) ==
    IF ~ IsOk(inner) THEN inner
    ELSE Ok(<< Tok(word), Tok("<") >> \o inner.val \o << Tok(">") >>)

RECURSIVE Type_to_tokens(_)
\* impl ToTokens for Type, for TypeInner
Type_to_tokens(ty) ==
    CASE ty.typ.t = "String" -> Ok(<< Tok("String") >>)
      [] ty.typ.t = "F64" -> Ok(<< Tok("f64") >>)
      [] ty.typ.t = "I64" -> Ok(<< Tok("i64") >>)
      [] ty.typ.t = "Bool" -> Ok(<< Tok("bool") >>)
      [] ty.typ.t = "Array" -> generic("Vec", Type_to_tokens(ty.typ.inner))
      [] ty.typ.t = "Option" -> generic("Option", Type_to_tokens(ty.typ.inner))
      [] ty.typ.t = "Named" -> ident(ty.typ.name)
      [] ty.typ.t = "Any" -> Panic("not implemented")

\* doc_comment: #[doc = #msg], for every message, the empty one included
doc_comment(msg) ==
    << Tok("#"), Tok("["), Tok("doc"), Tok("="), LitTok(msg), Tok("]") >>

\* descr.map(doc_comment): Option::map with doc_comment
map_doc_comment(descr) == IF descr = None THEN None ELSE Some(doc_comment(descr[1]))

\* an Option<TokenStream> interpolated by quote!: None gives no token
option_tokens(option) == IF option = None THEN << >> ELSE option[1]

\* get_derive_tokens
get_derive_tokens ==
    << Tok("#"), Tok("["), Tok("derive"), Tok("("), Tok("Debug"), Tok(","), Tok("Clone"),
       Tok(","), Tok("PartialEq"), Tok(","), Tok("PartialOrd"), Tok(","),
       Tok("hsr::Serialize"), Tok(","), Tok("hsr::Deserialize"), Tok(")"), Tok("]") >>

\* the tokens of two parts, the first failure if one fails
then_tokens(first, second) ==
    IF ~ IsOk(first) THEN first
    ELSE IF ~ IsOk(second) THEN second
    ELSE Ok(first.val \o second.val)

\* generate_struct_def: one field, `#fielddescr pub #fieldname: #fieldtype`
field_def(field) ==
    then_tokens(then_tokens(Ok(option_tokens(map_doc_comment(field.ty.meta.description)) \o << Tok("pub") >>),
                            ident(field.name)),
                then_tokens(Ok(<< Tok(":") >>), Type_to_tokens(field.ty)))

RECURSIVE field_defs(_, _)
\* generate_struct_def: the fields from the i-th on, separated by commas
field_defs(fields, i) ==
    IF i > Len(fields) THEN Ok(<< >>)
    ELSE then_tokens(
            then_tokens(Ok(IF i = 1 THEN << >> ELSE << Tok(",") >>), field_def(fields[i])),
            field_defs(fields, i + 1))

\* generate_struct_def, with Visibility::Public
generate_struct_def(name, descr, strukt) ==
    then_tokens(
        then_tokens(Ok(get_derive_tokens \o option_tokens(map_doc_comment(descr))
                           \o << Tok("pub"), Tok("struct") >>),
                    ident(name)),
        then_tokens(then_tokens(Ok(<< Tok("{") >>), field_defs(strukt.fields, 1)),
                    Ok(<< Tok("}") >>)))

\* generate_rust_component_types: the type alias `#descr pub type #typename = #typ;`
type_alias(typename, descr, typ) ==
    then_tokens(
        then_tokens(Ok(option_tokens(map_doc_comment(descr)) \o << Tok("pub"), Tok("type") >>), ident(typename)),
        then_tokens(then_tokens(Ok(<< Tok("=") >>), Type_to_tokens([typ |-> typ])),
                    Ok(<< Tok(";") >>)))

\* generate_rust_component_types: the definition of one entry
type_def(typename, typ) ==
    IF typ.typ.either = "Left"
    THEN generate_struct_def(typename, typ.meta.description, typ.typ.v)
    ELSE type_alias(typename, typ.meta.description, typ.typ.v)

RECURSIVE type_defs(_, _)
type_defs(tm, i) ==
    IF i > Len(tm) THEN Ok(<< >>)
    ELSE then_tokens(type_def(tm[i][1], tm[i][2]), type_defs(tm, i + 1))

generate_rust_component_types(tm) == type_defs(tm, 1)

(***************************************************************************)
(* Emitter runs: a schema table is gathered and its TypeMap is emitted     *)
(***************************************************************************)

AnySchema == Item(Schema(NoMeta, AnyKind(<< >>, << >>)))

EmitKeys == { StrA, StrB, StrPet }

EmitSchemas ==
    { Item(Schema(SchemaData(Some(<< "d" >>)), StringKind)),
      Item(Schema(NoMeta, NumberKind)),
      Item(Schema(NoMeta, IntegerKind)),
      Item(Schema(SchemaData(Some(<< >>)), BooleanKind)),
      ArrayOf(Item(Schema(NoMeta, StringKind))),
      Item(Schema(NoMeta, ObjectKind(<< << StrId, Item(Schema(SchemaData(Some(<< >>)),
                                                              IntegerKind)) >>,
                                        << StrNext, Reference(Pointer(StrA)) >> >>,
                                     << StrId >>))),
      Reference(Pointer(StrA)),
      AnySchema,
      ArrayOf(AnySchema),
      ObjectOf(StrId, AnySchema),
      Item(Schema(NoMeta, OneOfKind)) }

EmitTables ==
    { table \in UNION { [1..n -> EmitKeys \X EmitSchemas] : n \in 1..MaxSchemas } :
        DistinctKeys(table) }

InitEmit ==
    /\ pc = "emit_start"
    /\ schema_lookup \in EmitTables
    /\ idx = 0 /\ todo = None /\ calls = 0 /\ typs = None /\ gather_result = None
    /\ tokens = None
    /\ NotEmitIdle

\* generate_from_yaml_source, line 1053: gather_component_types(&schema_lookup)?
GatherTypes ==
    /\ pc = "emit_start"
    /\ \E result \in { gather_component_types(schema_lookup) } :
        /\ gather_result' = result
        /\ typs' = IF IsOk(result) THEN result.val ELSE None
        /\ pc' = IF IsOk(result) THEN "emit_gathered" ELSE "emit_rejected"
    /\ UNCHANGED << schema_lookup, idx, todo, calls, tokens, notEmit >>

\* generate_from_yaml_source, line 1063: generate_rust_component_types(&typs)
GenerateComponentTypes ==
    /\ pc = "emit_gathered"
    /\ \E result \in { generate_rust_component_types(typs) } :
        /\ tokens' = result
        /\ pc' = IF IsOk(result) THEN "emitted" ELSE "emit_aborted"
    /\ UNCHANGED << schema_lookup, gatherVars, notEmit >>

NextEmit == GatherTypes \/ GenerateComponentTypes

SpecEmit == InitEmit /\ [][NextEmit]_vars

\* a type with the Any variant, at the top or under Array and Optional
RECURSIVE HasAny(_)
HasAny(ty) ==
    CASE ty.typ.t = "Any" -> TRUE
      [] ty.typ.t \in { "Array", "Option" } -> HasAny(ty.typ.inner)
      [] OTHER -> FALSE

\* C12: for every TypeMap that gather_component_types returns, the
\* type-definition emitter produces output, whatever Type variants the
\* TypeMap contains (String, Number, Integer, Boolean, Array, Optional, Named,
\* Any): it does not fail or abort.
C12_EmissionTotal ==
    pc \in { "emitted", "emit_aborted" } => IsOk(tokens)

\* without Any the emitter does produce output
EmitsWithoutAny ==
    (pc \in { "emitted", "emit_aborted" }
       /\ \A i \in DOMAIN typs :
            IF typs[i][2].typ.either = "Right"
            THEN ~ HasAny([typ |-> typs[i][2].typ.v])
            ELSE \A j \in DOMAIN typs[i][2].typ.v.fields :
                    ~ HasAny(typs[i][2].typ.v.fields[j].ty))
    => IsOk(tokens)

\* an alias whose description is the empty string gets #[doc = ""], one
\* without description gets no doc attribute
EmptyDescriptionDocumented ==
    (pc = "emitted" /\ Len(schema_lookup) = 1) =>
        /\ schema_lookup[1][2] = Item(Schema(SchemaData(Some(<< >>)), BooleanKind)) =>
              /\ IsOk(tokens)
              /\ SubSeq(tokens.val, 1, 6) = doc_comment(<< >>)
        /\ schema_lookup[1][2] = Item(Schema(NoMeta, NumberKind)) =>
              /\ IsOk(tokens)
              /\ tokens.val[1] = Tok("pub")

(***************************************************************************)
(* Identifier parsing: a raw string is parsed, and the stored form again   *)
(***************************************************************************)

\* the longest raw string enumerated
MaxIdentLen == 4

IdentAlphabet == { "a", "B", "1", "_", "-" }

SampleIdents ==
    { << "p", "e", "t", "I", "d" >>, << "p", "e", "t", "_", "i", "d" >>,
      << "P", "e", "t", "I", "d" >>, << "g", "e", "t", "H", "T", "T", "P" >>,
      << "a", "1", "B", "2", "c" >>, << "_", "a", "_", "_", "B", "_" >> }

IdentInputs == StringsUpTo(IdentAlphabet, MaxIdentLen) \cup SampleIdents

InitIdent ==
    /\ pc = "ident_start"
    /\ raw \in IdentInputs
    /\ parsed = None /\ parsed_again = None
    /\ NotIdentIdle

\* raw.parse::<Ident>()
ParseIdent ==
    /\ pc = "ident_start"
    /\ \E result \in { Ident_from_str(raw) } :
        /\ parsed' = result
        /\ pc' = IF IsOk(result) THEN "ident_parsed" ELSE "ident_rejected"
    /\ UNCHANGED << raw, parsed_again, notIdent >>

\* the stored form is parsed again
ParseAgain ==
    /\ pc = "ident_parsed"
    /\ parsed_again' = Ident_from_str(parsed.val)
    /\ pc' = "ident_again"
    /\ UNCHANGED << raw, parsed, notIdent >>

NextIdent == ParseIdent \/ ParseAgain

SpecIdent == InitIdent /\ [][NextIdent]_vars

\* C13: Identifier parsing accepts a raw string iff it equals its
\* snake-normalized or its mixed-case-normalized form, stores the
\* snake-normalized form, and is idempotent: the stored form is accepted
\* again and yields the same Identifier.
C13_IdentIdempotent ==
    /\ pc \in { "ident_parsed", "ident_again" } =>
         /\ raw = to_snake_case(raw) \/ raw = to_mixed_case(raw)
         /\ parsed = Ok(to_snake_case(raw))
    /\ pc = "ident_rejected" =>
         /\ raw # to_snake_case(raw) /\ raw # to_mixed_case(raw)
         /\ parsed = Err("BadIdentifier", raw)
    /\ pc = "ident_again" => parsed_again = parsed

\* a mixed-case name was stored in snake case and parsed again
C13_Witness ==
    /\ pc = "ident_again"
    /\ raw = << "p", "e", "t", "I", "d" >>
    /\ parsed = Ok(<< "p", "e", "t", "_", "i", "d" >>)
    /\ parsed_again = parsed

(***************************************************************************)
(* Error variants: error_variant_from_status_code                          *)
(***************************************************************************)

\* http::StatusCode::canonical_reason: the codes that have a reason phrase in
\* the http crate that actix_http::http re-exports (http 0.1/0.2).  That
\* table has no phrase for 103 and 425, which later releases of http name.
ReasonPhrases ==
    <<
       << 100, << "C", "o", "n", "t", "i", "n", "u", "e" >> >>,
       << 101, << "S", "w", "i", "t", "c", "h", "i", "n", "g", " ", "P", "r", "o", "t", "o", "c", "o", "l", "s" >> >>,
       << 102, << "P", "r", "o", "c", "e", "s", "s", "i", "n", "g" >> >>,
       << 200, << "O", "K" >> >>,
       << 201, << "C", "r", "e", "a", "t", "e", "d" >> >>,
       << 202, << "A", "c", "c", "e", "p", "t", "e", "d" >> >>,
       << 203, << "N", "o", "n", " ", "A", "u", "t", "h", "o", "r", "i", "t", "a", "t", "i", "v", "e", " ", "I", "n", "f", "o", "r", "m", "a", "t", "i", "o", "n" >> >>,
       << 204, << "N", "o", " ", "C", "o", "n", "t", "e", "n", "t" >> >>,
       << 205, << "R", "e", "s", "e", "t", " ", "C", "o", "n", "t", "e", "n", "t" >> >>,
       << 206, << "P", "a", "r", "t", "i", "a", "l", " ", "C", "o", "n", "t", "e", "n", "t" >> >>,
       << 207, << "M", "u", "l", "t", "i", "-", "S", "t", "a", "t", "u", "s" >> >>,
       << 208, << "A", "l", "r", "e", "a", "d", "y", " ", "R", "e", "p", "o", "r", "t", "e", "d" >> >>,
       << 226, << "I", "M", " ", "U", "s", "e", "d" >> >>,
       << 300, << "M", "u", "l", "t", "i", "p", "l", "e", " ", "C", "h", "o", "i", "c", "e", "s" >> >>,
       << 301, << "M", "o", "v", "e", "d", " ", "P", "e", "r", "m", "a", "n", "e", "n", "t", "l", "y" >> >>,
       << 302, << "F", "o", "u", "n", "d" >> >>,
       << 303, << "S", "e", "e", " ", "O", "t", "h", "e", "r" >> >>,
       << 304, << "N", "o", "t", " ", "M", "o", "d", "i", "f", "i", "e", "d" >> >>,
       << 305, << "U", "s", "e", " ", "P", "r", "o", "x", "y" >> >>,
       << 307, << "T", "e", "m", "p", "o", "r", "a", "r", "y", " ", "R", "e", "d", "i", "r", "e", "c", "t" >> >>,
       << 308, << "P", "e", "r", "m", "a", "n", "e", "n", "t", " ", "R", "e", "d", "i", "r", "e", "c", "t" >> >>,
       << 400, << "B", "a", "d", " ", "R", "e", "q", "u", "e", "s", "t" >> >>,
       << 401, << "U", "n", "a", "u", "t", "h", "o", "r", "i", "z", "e", "d" >> >>,
       << 402, << "P", "a", "y", "m", "e", "n", "t", " ", "R", "e", "q", "u", "i", "r", "e", "d" >> >>,
       << 403, << "F", "o", "r", "b", "i", "d", "d", "e", "n" >> >>,
       << 404, << "N", "o", "t", " ", "F", "o", "u", "n", "d" >> >>,
       << 405, << "M", "e", "t", "h", "o", "d", " ", "N", "o", "t", " ", "A", "l", "l", "o", "w", "e", "d" >> >>,
       << 406, << "N", "o", "t", " ", "A", "c", "c", "e", "p", "t", "a", "b", "l", "e" >> >>,
       << 407, << "P", "r", "o", "x", "y", " ", "A", "u", "t", "h", "e", "n", "t", "i", "c", "a", "t", "i", "o", "n", " ", "R", "e", "q", "u", "i", "r", "e", "d" >> >>,
       << 408, << "R", "e", "q", "u", "e", "s", "t", " ", "T", "i", "m", "e", "o", "u", "t" >> >>,
       << 409, << "C", "o", "n", "f", "l", "i", "c", "t" >> >>,
       << 410, << "G", "o", "n", "e" >> >>,
       << 411, << "L", "e", "n", "g", "t", "h", " ", "R", "e", "q", "u", "i", "r", "e", "d" >> >>,
       << 412, << "P", "r", "e", "c", "o", "n", "d", "i", "t", "i", "o", "n", " ", "F", "a", "i", "l", "e", "d" >> >>,
       << 413, << "P", "a", "y", "l", "o", "a", "d", " ", "T", "o", "o", " ", "L", "a", "r", "g", "e" >> >>,
       << 414, << "U", "R", "I", " ", "T", "o", "o", " ", "L", "o", "n", "g" >> >>,
       << 415, << "U", "n", "s", "u", "p", "p", "o", "r", "t", "e", "d", " ", "M", "e", "d", "i", "a", " ", "T", "y", "p", "e" >> >>,
       << 416, << "R", "a", "n", "g", "e", " ", "N", "o", "t", " ", "S", "a", "t", "i", "s", "f", "i", "a", "b", "l", "e" >> >>,
       << 417, << "E", "x", "p", "e", "c", "t", "a", "t", "i", "o", "n", " ", "F", "a", "i", "l", "e", "d" >> >>,
       << 418, << "I", "'", "m", " ", "a", " ", "t", "e", "a", "p", "o", "t" >> >>,
       << 421, << "M", "i", "s", "d", "i", "r", "e", "c", "t", "e", "d", " ", "R", "e", "q", "u", "e", "s", "t" >> >>,
       << 422, << "U", "n", "p", "r", "o", "c", "e", "s", "s", "a", "b", "l", "e", " ", "E", "n", "t", "i", "t", "y" >> >>,
       << 423, << "L", "o", "c", "k", "e", "d" >> >>,
       << 424, << "F", "a", "i", "l", "e", "d", " ", "D", "e", "p", "e", "n", "d", "e", "n", "c", "y" >> >>,
       << 426, << "U", "p", "g", "r", "a", "d", "e", " ", "R", "e", "q", "u", "i", "r", "e", "d" >> >>,
       << 428, << "P", "r", "e", "c", "o", "n", "d", "i", "t", "i", "o", "n", " ", "R", "e", "q", "u", "i", "r", "e", "d" >> >>,
       << 429, << "T", "o", "o", " ", "M", "a", "n", "y", " ", "R", "e", "q", "u", "e", "s", "t", "s" >> >>,
       << 431, << "R", "e", "q", "u", "e", "s", "t", " ", "H", "e", "a", "d", "e", "r", " ", "F", "i", "e", "l", "d", "s", " ", "T", "o", "o", " ", "L", "a", "r", "g", "e" >> >>,
       << 451, << "U", "n", "a", "v", "a", "i", "l", "a", "b", "l", "e", " ", "F", "o", "r", " ", "L", "e", "g", "a", "l", " ", "R", "e", "a", "s", "o", "n", "s" >> >>,
       << 500, << "I", "n", "t", "e", "r", "n", "a", "l", " ", "S", "e", "r", "v", "e", "r", " ", "E", "r", "r", "o", "r" >> >>,
       << 501, << "N", "o", "t", " ", "I", "m", "p", "l", "e", "m", "e", "n", "t", "e", "d" >> >>,
       << 502, << "B", "a", "d", " ", "G", "a", "t", "e", "w", "a", "y" >> >>,
       << 503, << "S", "e", "r", "v", "i", "c", "e", " ", "U", "n", "a", "v", "a", "i", "l", "a", "b", "l", "e" >> >>,
       << 504, << "G", "a", "t", "e", "w", "a", "y", " ", "T", "i", "m", "e", "o", "u", "t" >> >>,
       << 505, << "H", "T", "T", "P", " ", "V", "e", "r", "s", "i", "o", "n", " ", "N", "o", "t", " ", "S", "u", "p", "p", "o", "r", "t", "e", "d" >> >>,
       << 506, << "V", "a", "r", "i", "a", "n", "t", " ", "A", "l", "s", "o", " ", "N", "e", "g", "o", "t", "i", "a", "t", "e", "s" >> >>,
       << 507, << "I", "n", "s", "u", "f", "f", "i", "c", "i", "e", "n", "t", " ", "S", "t", "o", "r", "a", "g", "e" >> >>,
       << 508, << "L", "o", "o", "p", " ", "D", "e", "t", "e", "c", "t", "e", "d" >> >>,
       << 510, << "N", "o", "t", " ", "E", "x", "t", "e", "n", "d", "e", "d" >> >>,
       << 511, << "N", "e", "t", "w", "o", "r", "k", " ", "A", "u", "t", "h", "e", "n", "t", "i", "c", "a", "t", "i", "o", "n", " ", "R", "e", "q", "u", "i", "r", "e", "d" >> >>
    >>

\* StatusCode::canonical_reason
canonical_reason(code) ==
    IF \E i \in DOMAIN ReasonPhrases : ReasonPhrases[i][1] = code
    THEN Some(ReasonPhrases[CHOOSE i \in DOMAIN ReasonPhrases : ReasonPhrases[i][1] = code][2])
    ELSE None

\* format!("E{}", code.as_str())
synthetic_name(code) == << "E" >> \o Decimal(code)

\* Result::ok
ok(result) == IF IsOk(result) THEN Some(result.val) ELSE None

\* Option::unwrap_or(option, TypeName::new(..).unwrap()): the default is
\* computed, and unwrapped, before the option is looked at
unwrap_or(option, default) ==
    IF ~ IsOk(default) THEN Panic("called Result::unwrap() on an Err value")
    ELSE IF option = None THEN Ok(default.val) ELSE Ok(option[1])

\* a variant named by the snake case of the reason phrase
error_variant_snake(code) ==
    Bind(canonical_reason(code), LAMBDA reason :
        unwrap_or(IF reason = None THEN None ELSE ok(TypeName_new(to_snake_case(reason[1]))),
                  TypeName_new(synthetic_name(code))))

\* error_variant_from_status_code
error_variant_from_status_code(code) ==
    Bind(canonical_reason(code), LAMBDA reason :
        unwrap_or(IF reason = None THEN None ELSE ok(TypeName_new(to_camel_case(reason[1]))),
                  TypeName_new(synthetic_name(code))))

\* the status codes run from 100 to MaxCode
MaxCode == 599

InitStatus ==
    /\ pc = "status_start"
    /\ status_code \in 100..MaxCode
    /\ error_variant = None
    /\ NotStatusIdle

ErrorVariant ==
    /\ pc = "status_start"
    /\ error_variant' = error_variant_from_status_code(status_code)
    /\ pc' = "status_done"
    /\ UNCHANGED << status_code, notStatus >>

NextStatus == ErrorVariant

SpecStatus == InitStatus /\ [][NextStatus]_vars

\* the words of a phrase, each with a capital first letter and the rest in
\* lower case, joined
CapitalizedWords(phrase) ==
    Concat([k \in DOMAIN split(phrase, " ") |-> capitalize(split(phrase, " ")[k])])

OnlyLetters(phrase) == \A i \in DOMAIN phrase : IsAlpha(phrase[i]) \/ phrase[i] = " "

\* C14: error_variant_from_status_code never fails: for every status code it
\* returns a valid TypeName, the capitalized words of the canonical reason
\* phrase joined when the phrase exists and is a valid TypeName, and
\* E<code> otherwise.
C14_EveryCodeNamed ==
    pc = "status_done" =>
        LET reason == canonical_reason(status_code) IN
        /\ IsOk(error_variant)
        /\ IsOk(TypeName_new(error_variant.val))
        /\ IF reason # None /\ IsOk(TypeName_new(to_camel_case(reason[1])))
           THEN /\ error_variant.val = to_camel_case(reason[1])
                /\ OnlyLetters(reason[1]) => error_variant.val = CapitalizedWords(reason[1])
           ELSE error_variant.val = << "E" >> \o Decimal(status_code)

\* 404 has been named NotFound, and a code without reason phrase E<code>
C14_Witness ==
    /\ pc = "status_done"
    /\ \/ status_code = 404 /\ error_variant = Ok(<< "N", "o", "t", "F", "o", "u", "n", "d" >>)
       \/ status_code = 499 /\ error_variant = Ok(<< "E", "4", "9", "9" >>)

\* the teapot keeps its apostrophe
TeapotNamed ==
    (pc = "status_done" /\ status_code = 418) =>
        error_variant = Ok(<< "I", "'", "m", "A", "T", "e", "a", "p", "o", "t" >>)

(***************************************************************************)
(* dereference, one call at a time                                         *)
(***************************************************************************)

\* the most entries of an enumerated table
MaxEntries == 2

\* the calls the stack has room for: more than a chain without cycle makes
\* in a table of MaxEntries entries
StackFrames == MaxEntries + 2

StrK1 == << "k", "1" >>

StrK2 == << "k", "2" >>

StrK3 == << "k", "3" >>

DerefKeys == { StrK1, StrK2, StrK3 }

DerefValues ==
    { Item(<< "p" >>), Item(<< "q" >>) }
    \cup { Reference(k) : k \in DerefKeys \cup { StrNope } }

DerefTables ==
    { table \in UNION { [1..n -> DerefKeys \X DerefValues] : n \in 1..MaxEntries } :
        DistinctKeys(table) }

InitDeref ==
    /\ pc = "deref"
    /\ deref_lookup \in DerefTables
    /\ deref_input \in DerefValues
    /\ deref_cur = deref_input
    /\ deref_depth = 0
    /\ deref_result = None
    /\ NotDerefIdle

DerefReturn(result) ==
    /\ deref_result' = result
    /\ pc' = "deref_done"
    /\ UNCHANGED << deref_lookup, deref_input, deref_cur, deref_depth, notDeref >>

\* ReferenceOr::Item(item) => Ok(item)
DerefItem ==
    /\ pc = "deref" /\ deref_cur.kind = "Item"
    /\ DerefReturn(Ok(deref_cur.item))

\* lookup.get(reference) is None: BadReference
DerefMissing ==
    /\ pc = "deref" /\ deref_cur.kind = "Reference"
    /\ Get(deref_lookup, deref_cur.reference) = None
    /\ DerefReturn(Err("BadReference", deref_cur.reference))

\* lookup.get(reference) is Some(refr): dereference(refr, lookup) is called
DerefFollow ==
    /\ pc = "deref" /\ deref_cur.kind = "Reference"
    /\ Get(deref_lookup, deref_cur.reference) # None
    /\ deref_depth < StackFrames
    /\ deref_cur' = Get(deref_lookup, deref_cur.reference)[1]
    /\ deref_depth' = deref_depth + 1
    /\ UNCHANGED << pc, deref_lookup, deref_input, deref_result, notDeref >>

\* the same call when the stack is full: the process is aborted
DerefOverflow ==
    /\ pc = "deref" /\ deref_cur.kind = "Reference"
    /\ Get(deref_lookup, deref_cur.reference) # None
    /\ deref_depth = StackFrames
    /\ pc' = "deref_overflow"
    /\ UNCHANGED << deref_lookup, deref_input, deref_cur, deref_depth, deref_result, notDeref >>

\* the same call in a build that turns the call in tail position into a
\* jump: no frame is added
DerefJump ==
    /\ pc = "deref" /\ deref_cur.kind = "Reference"
    /\ Get(deref_lookup, deref_cur.reference) # None
    /\ deref_depth = StackFrames
    /\ deref_cur' = Get(deref_lookup, deref_cur.reference)[1]
    /\ UNCHANGED << pc, deref_lookup, deref_input, deref_depth, deref_result, notDeref >>

NextDeref == DerefItem \/ DerefMissing \/ DerefFollow \/ DerefOverflow \/ DerefJump

SpecDeref == InitDeref /\ [][NextDeref]_vars

\* a call that has been made runs
SpecDerefFair == SpecDeref /\ WF_vars(NextDeref)

\* the runs agree with dereference: they return what it returns, and do not
\* return where it diverges
DerefAgrees ==
    /\ pc = "deref_done" => deref_result = dereference(deref_input, deref_lookup)
    /\ pc = "deref_overflow" => dereference(deref_input, deref_lookup) = Diverges

\* the entry the reference handed to dereference points to
FirstEntry == Get(deref_lookup, deref_input.reference)

\* C15: dereference is single-hop: given a reference it looks the pointer up
\* once in the table and does not follow a further reference found there (so
\* it makes no call beyond the one on the entry found, and returns no item
\* from behind a second reference); a pointer to a key missing from the
\* table fails with BadReference.
C15_SingleHop ==
    (pc = "deref_done" /\ deref_input.kind = "Reference") =>
        /\ FirstEntry = None => deref_result = Err("BadReference", deref_input.reference)
        /\ deref_depth <= 1
        /\ (FirstEntry # None /\ FirstEntry[1].kind = "Reference") => ~ IsOk(deref_result)

\* C19: dereference terminates on every finite table, also when its entries
\* are references that point to each other in a cycle or to themselves: the
\* stack is never exhausted and every call returns an item or an error.
C19_DerefTerminates == [] (pc # "deref_overflow") /\ ((pc = "deref") ~> (pc = "deref_done"))

\* without a cycle dereference does return
C19_AcyclicReturns ==
    (pc = "deref" /\ dereference(deref_input, deref_lookup) # Diverges) ~> (pc = "deref_done")

(***************************************************************************)
(* Type::to_option on the Types of the IR                                  *)
(***************************************************************************)

\* the deepest nesting of Array and Optional in an enumerated Type
MaxNest == 2

TypeMetas == { NoMeta, SchemaData(Some(<< "d" >>)) }

LeafTypes ==
    { TypeWithMeta(meta, inner) :
        meta \in TypeMetas,
        inner \in { Primitive("String"), Primitive("F64"), Primitive("I64"),
                    Primitive("Bool"), AnyType, Named(StrPet) } }

RECURSIVE TypesUpTo(_)
\* the Types with at most n wrappers; an Optional carries the metadata of
\* the type it wraps, as to_option makes it
TypesUpTo(n) ==
    IF n = 0 THEN LeafTypes
    ELSE TypesUpTo(n - 1)
         \cup { TypeWithMeta(meta, Array(ty)) : meta \in TypeMetas, ty \in TypesUpTo(n - 1) }
         \cup { TypeWithMeta(ty.meta, Option(ty)) : ty \in TypesUpTo(n - 1) }

InitOption ==
    /\ pc = "option_start"
    /\ option_input \in TypesUpTo(MaxNest)
    /\ option_result = None
    /\ NotOptionIdle

\* ty.to_option()
ToOption ==
    /\ pc = "option_start"
    /\ option_result' = to_option(option_input)
    /\ pc' = "option_done"
    /\ UNCHANGED << option_input, notOption >>

NextOption == ToOption

\* to_option as a function on every Type, next to the runs of build_type,
\* where Struct::from_objlike is its caller
SpecOption == (InitOption \/ InitType) /\ [][NextOption \/ NextType]_vars

\* an Optional directly around an Optional, anywhere in the type
RECURSIVE NestedOptional(_)
NestedOptional(ty) ==
    CASE ty.typ.t = "Option" -> ty.typ.inner.typ.t = "Option" \/ NestedOptional(ty.typ.inner)
      [] ty.typ.t = "Array" -> NestedOptional(ty.typ.inner)
      [] OTHER -> FALSE

\* C16 as stated: Optional never directly wraps another Optional: to_option
\* on a Type that is already Optional collapses to a single Optional, and
\* to_option on a type without nested Optional returns a type without
\* nested Optional.
C16_OptionalCollapses ==
    pc = "option_done" =>
        /\ option_input.typ.t = "Option" => option_result = option_input
        /\ option_input.typ.t # "Option" =>
              option_result = TypeWithMeta(option_input.meta, Option(option_input))
        /\ ~ NestedOptional(option_input) => ~ NestedOptional(option_result)

\* C16: to_option wraps unconditionally: for every Type T, one that is
\* already Optional included, it returns Optional(T) with the metadata of T,
\* so on an Optional it returns Optional(Optional(T)).  No type that
\* build_type returns and no field of a Struct that Struct::from_objlike
\* returns has the shape Optional(Optional(T)): build_type returns no
\* Optional, and from_objlike applies to_option once, to the type built for
\* a property that is not required.
C16_WrapsOnce ==
    /\ pc = "option_done" =>
          /\ option_result = TypeWithMeta(option_input.meta, Option(option_input))
          /\ option_input.typ.t = "Option" => NestedOptional(option_result)
          /\ (option_input.typ.t # "Option" /\ ~ NestedOptional(option_input))
                => ~ NestedOptional(option_result)
    /\ (TypeBuilt /\ IsOk(built_type)) =>
          IF built_type.val.typ.either = "Right"
          THEN /\ built_type.val.typ.v.t # "Option"
               /\ ~ NestedOptional([typ |-> built_type.val.typ.v])
          ELSE \A i \in DOMAIN built_type.val.typ.v.fields :
                  LET field == built_type.val.typ.v.fields[i] IN
                  /\ ~ NestedOptional(field.ty)
                  /\ field.ty.typ.t = "Option" =>
                        /\ field.ty.typ.inner.typ.t # "Option"
                        /\ field.ty.meta = field.ty.typ.inner.meta
                  /\ IsStructSchema(input_schema) =>
                        LET kind == input_schema.item.schema_kind IN
                        (field.ty.typ.t = "Option") <=>
                            (\A j \in DOMAIN kind.required :
                                kind.required[j] # kind.properties[i][1])

\* from_objlike has made the type of the property tag, which is not
\* required, Optional, once
C16_Witness ==
    /\ TypeBuilt /\ input_schema = PetSchema /\ BuiltStruct
    /\ built_type.val.typ.v.fields[3].ty
          = to_option(TypeWithMeta(NoMeta, Primitive("String")))

\* the types build_type and Struct::from_objlike return hold no Optional
\* directly around an Optional
BuiltWithoutNestedOptional ==
    (TypeBuilt /\ IsOk(built_type)) =>
        IF built_type.val.typ.either = "Right"
        THEN ~ NestedOptional([typ |-> built_type.val.typ.v])
        ELSE \A i \in DOMAIN built_type.val.typ.v.fields :
                ~ NestedOptional(built_type.val.typ.v.fields[i].ty)

----------------------------------------------------------------------------
(* Route paths: further claims *)

\* C17: in every RoutePath that RoutePath::analyse returns, the name of
\* every Parameter segment is a valid Identifier: Identifier parsing accepts
\* it.
C17_ParameterNamesAreIdentifiers ==
    (PathAnalysed /\ IsOk(route_path)) =>
        \A i \in DOMAIN route_path.val :
            route_path.val[i].kind = "Parameter" =>
                IsOk(Ident_from_str(route_path.val[i].name))

\* a parameter name in lower case is a valid Identifier
LowerCaseNamesAreIdentifiers ==
    (PathAnalysed /\ IsOk(route_path)) =>
        \A i \in DOMAIN route_path.val :
            ( /\ route_path.val[i].kind = "Parameter"
              /\ \A k \in DOMAIN route_path.val[i].name : is_lowercase(route_path.val[i].name[k]) )
            => Ident_from_str(route_path.val[i].name) = Ok(route_path.val[i].name)

\* the path ends with a slash after its last segment
TrailingSlash(p) == Len(p) >= 2 /\ p[Len(p)] = "/" /\ p[Len(p) - 1] # "/"

\* C18: path analysis rejects every path that ends with a trailing slash
\* after its last segment (such as /a/b/c/), as it rejects the empty path and
\* a path without leading slash.
C18_TrailingSlashRejected ==
    PathAnalysed =>
        /\ (path = << >> \/ ~ starts_with(path, << "/" >>)) => IsErr(route_path, "MalformedPath")
        /\ TrailingSlash(path) => ~ IsOk(route_path)

----------------------------------------------------------------------------
(* Struct extraction: field names *)

\* C20: every Struct returned by Struct::from_objlike is a mapping: its
\* field Identifiers are pairwise distinct, also when two property names
\* normalize to the same Identifier (a mixed-case name and its snake-case
\* spelling).
C20_FieldNamesDistinct ==
    (TypeBuilt /\ IsStructSchema(input_schema) /\ BuiltStruct) =>
        LET fields == built_type.val.typ.v.fields IN
        \A i, j \in DOMAIN fields : i # j => fields[i].name # fields[j].name

\* property names with distinct Identifiers give distinct field names
DistinctIdentifiersKept ==
    (TypeBuilt /\ IsStructSchema(input_schema) /\ BuiltStruct) =>
        LET fields == built_type.val.typ.v.fields
            props == input_schema.item.schema_kind.properties
        IN  \A i, j \in DOMAIN fields :
                to_snake_case(props[i][1]) # to_snake_case(props[j][1])
                    => fields[i].name # fields[j].name

====
